---- MODULE Spec2Model ----
(***************************************************************************)
(* Model of the modpack dependency resolver (ModResolver.resolve), the     *)
(* policy engine it calls (ModPolicy.apply) and the verified artifact      *)
(* downloader (ModDownloader.download_all / _download_project).            *)
(***************************************************************************)
EXTENDS Integers, Sequences, FiniteSets, TLC

\* ------------------------------------------------------------------ bounds
\* A scenario (requested mods, rule table, search catalog, version catalog)
\* differs from the base scenario by at most MaxFeatures modifications.
MaxFeatures == 2

\* -------------------------------------------------------- program constants
BATCH_SIZE == 10

mc_version == "1.21.1"
loader == "fabric"

\* Python's None where a project id is expected.
NoId == "None"
Ids == {"p1", "p2", "p3"}
Names == {"sodium", "optifine", "indium"}
DependencyTypes == {"required", "optional", "incompatible", "embedded"}

\* ------------------------------------------------------------ small helpers
Range(s) == {s[i] : i \in 1..Len(s)}

Perms(S) == {s \in [1..Cardinality(S) -> S] : Range(s) = S}

Min(a, b) == IF a <= b THEN a ELSE b

\* The elements of set S in the order they have in the sequence ord.
RECURSIVE OrderBy(_, _)
OrderBy(S, ord) ==
    IF ord = <<>> THEN <<>>
    ELSE IF Head(ord) \in S THEN <<Head(ord)>> \o OrderBy(S, Tail(ord))
         ELSE OrderBy(S, Tail(ord))

\* sorted(): the names of S in the order of Python's string comparison.
SortedNames == <<"indium", "optifine", "sodium">>

Sorted(S) == OrderBy(S, SortedNames)

\* The orders in which a set of names can be iterated.
NameOrders == Perms(Names)

\* ------------------------------------------------------------- data records
Dependency(dtype, pid) == [dependency_type |-> dtype, project_id |-> pid]

File(name, url, primary, sha1, size) ==
    [filename |-> name, url |-> url, primary |-> primary,
     hashes |-> [sha1 |-> sha1], size |-> size]

ProjectVersion(vtype, gvs, lds, deps) ==
    [version_type |-> vtype, game_versions |-> gvs, loaders |-> lds,
     dependencies |-> deps, date_published |-> 0, files |-> <<>>]

\* A version as the downloader reads it: with a publication date and files.
VersionWithFiles(vtype, gvs, lds, date, files) ==
    [version_type |-> vtype, game_versions |-> gvs, loaders |-> lds,
     dependencies |-> <<>>, date_published |-> date, files |-> files]

\* The slug of the project with id pid.
SlugOf(pid) ==
    CASE pid = "p1" -> "sodium"
      [] pid = "p2" -> "optifine"
      [] pid = "p3" -> "indium"

Hit(pid, ptype, vs) ==
    [project_id |-> pid, project_type |-> ptype, slug |-> SlugOf(pid), versions |-> vs]

Rule(conflicts, sub_mods) == [conflicts |-> conflicts, sub_mods |-> sub_mods]

\* ------------------------------------------------------------------ policy
\* self.rules.get(mod): the rule of mod, or an empty rule when it has none
\* (a missing rule adds no sub-mod and removes nothing).
RuleOf(rules, mod) ==
    IF mod \in DOMAIN rules THEN rules[mod] ELSE Rule({}, {})

\* Step 1 of apply: the work queue to_process is drained from the front; every
\* sub-mod not yet active is added to active and appended to the queue.
\* ord fixes the iteration order of the sets involved.
RECURSIVE ExpandSubMods(_, _, _, _)
ExpandSubMods(rules, to_process, active, ord) ==
    IF to_process = <<>> THEN active
    ELSE LET current_mod == Head(to_process)
             fresh == OrderBy(RuleOf(rules, current_mod).sub_mods \ active, ord)
         IN ExpandSubMods(rules, Tail(to_process) \o fresh, active \cup Range(fresh), ord)

\* Step 2 of apply: for every mod of active (a removed one included), in
\* iteration order, its conflicts are removed from final_mods.
RECURSIVE RemoveConflicts(_, _, _)
RemoveConflicts(rules, todo, final_mods) ==
    IF todo = <<>> THEN final_mods
    ELSE RemoveConflicts(rules, Tail(todo),
                         final_mods \ RuleOf(rules, Head(todo)).conflicts)

PolicyApply(rules, mods, ord) ==
    LET active == ExpandSubMods(rules, OrderBy(mods, ord), mods, ord)
    IN RemoveConflicts(rules, OrderBy(active, ord), active)

\* ------------------------------------------------------- version selection
Compatible(v) == mc_version \in v.game_versions /\ loader \in v.loaders

IsRelease(v) == v.version_type = "release"

\* The least index of the set S of indices, 0 when S is empty: where a
\* loop that returns at the first match stops.
FirstIn(S) == IF S = {} THEN 0 ELSE CHOOSE i \in S : \A j \in S : i <= j

\* The test of the second loop alone.
AnyCompatible(v) == Compatible(v)

\* ModResolver._select_version: the first compatible release, else the first
\* compatible version, else None.  The result is <<v>> or <<>> (None).
ReleaseAndCompatible(v) == IsRelease(v) /\ Compatible(v)

SelectVersion(versions) ==
    LET r == FirstIn({i \in 1..Len(versions) : ReleaseAndCompatible(versions[i])})
        c == FirstIn({i \in 1..Len(versions) : Compatible(versions[i])})
    IN IF r # 0 THEN <<versions[r]>>
       ELSE IF c # 0 THEN <<versions[c]>>
       ELSE <<>>

\* ------------------------------------------------------------------ search
\* ModResolver._search_project on a parsed response: the project id of the
\* first hit of type "mod" that supports mc_version, else None.
HitQualifies(hit) == hit.project_type = "mod" /\ mc_version \in hit.versions

SearchProject(found) ==
    LET i == FirstIn({k \in 1..Len(found) : HitQualifies(found[k])})
    IN IF i = 0 THEN NoId ELSE found[i].project_id

\* ------------------------------------------- downloader: pure functions
\* str.lower on the loader names that occur.
Lower(str) ==
    CASE str = "Fabric" -> "fabric"
      [] str = "FABRIC" -> "fabric"
      [] str = "Forge" -> "forge"
      [] OTHER -> str

\* Lines 55-61: the version passes the downloader's filter.
CompatibleForDownload(v) ==
    /\ mc_version \in v.game_versions
    /\ Lower(loader) \in {Lower(l) : l \in v.loaders}

\* Lines 69-73: version_priority.get(vtype, 0).
version_score(v) ==
    CASE v.version_type = "release" -> 3
      [] v.version_type = "beta" -> 2
      [] v.version_type = "alpha" -> 1
      [] OTHER -> 0

\* Mutant of KeyGreater: equal keys count as greater.
KeyGreaterOrEqual(a, b) ==
    \/ version_score(a) > version_score(b)
    \/ /\ version_score(a) = version_score(b)
       /\ a.date_published >= b.date_published

\* The sort key of a is greater than that of b.
KeyGreater(a, b) ==
    \/ version_score(a) > version_score(b)
    \/ /\ version_score(a) = version_score(b)
       /\ a.date_published > b.date_published

\* Line 76: list.sort(key, reverse=True) is stable: v goes behind every
\* element whose key is not smaller.
RECURSIVE InsertDescending(_, _)
InsertDescending(v, sorted) ==
    IF sorted = <<>> THEN <<v>>
    ELSE IF KeyGreater(v, Head(sorted)) THEN <<v>> \o sorted
         ELSE <<Head(sorted)>> \o InsertDescending(v, Tail(sorted))

RECURSIVE SortDescending(_, _)
SortDescending(todo, sorted) ==
    IF todo = <<>> THEN sorted
    ELSE SortDescending(Tail(todo), InsertDescending(Head(todo), sorted))

\* ModDownloader._select_compatible_version: <<v>> or <<>> (None).
SelectCompatibleVersion(versions) ==
    LET compatible == SelectSeq(versions, CompatibleForDownload)
    IN IF compatible = <<>> THEN <<>>
       ELSE <<Head(SortDescending(compatible, <<>>))>>

\* Mutant of PrimaryFile: the first file, whatever is flagged.
PrimaryFileFirstListed(files) == IF files # <<>> THEN <<files[1]>> ELSE <<>>

\* Lines 136-141: the first file flagged primary, else the first file, else
\* None: <<f>> or <<>>.
PrimaryFile(files) ==
    LET i == FirstIn({k \in 1..Len(files) : files[k].primary})
    IN IF i # 0 THEN <<files[i]>>
       ELSE IF files # <<>> THEN <<files[1]>>
       ELSE <<>>

\* hashlib.sha1 / hashlib.sha512 of the byte strings that occur.
Sha1(data) ==
    CASE data = "d1" -> "h1"
      [] data = "d2" -> "h2"
      [] data = "dx" -> "hx"

Sha512(data) ==
    CASE data = "d1" -> "H1"
      [] data = "d2" -> "H2"
      [] data = "dx" -> "HX"

\* Line 154 / 194: the index path of a file name.
PathOf(filename) == <<"mods", filename>>

\* Lines 153-156: the first index entry with the path, <<e>> or <<>>.
ExistingEntry(files_list, path) ==
    LET i == FirstIn({k \in 1..Len(files_list) : files_list[k].path = path})
    IN IF i = 0 THEN <<>> ELSE <<files_list[i]>>

Absent == "absent"

\* Mutant of CacheHit: a present file with the expected sha1 is a hit, even
\* when the index has no entry for its path.
CacheHitByFileOnly(files_list, dir, primary_file) ==
    /\ dir[primary_file.filename] # Absent
    /\ Sha1(dir[primary_file.filename]) = primary_file.hashes.sha1

\* Lines 158-164: the file is registered, present and has the expected sha1.
CacheHit(files_list, dir, primary_file) ==
    /\ ExistingEntry(files_list, PathOf(primary_file.filename)) # <<>>
    /\ dir[primary_file.filename] # Absent
    /\ Sha1(dir[primary_file.filename]) = primary_file.hashes.sha1

\* Lines 193-199: the entry registered for a downloaded file.
FileEntry(primary_file, data) ==
    [path |-> PathOf(primary_file.filename),
     hashes |-> [sha1 |-> Sha1(data), sha512 |-> Sha512(data)],
     env |-> [client |-> "required", server |-> "required"],
     downloads |-> <<primary_file.url>>,
     fileSize |-> primary_file.size]

\* Mutant of Upsert: the new entry takes the place of the first entry with
\* its path, and is appended only when there is none.
UpsertInPlace(files_list, file_entry) ==
    LET same == {k \in 1..Len(files_list) : files_list[k].path = file_entry.path}
    IN IF same = {} THEN Append(files_list, file_entry)
       ELSE [k \in 1..Len(files_list) |->
               IF k \in same THEN file_entry ELSE files_list[k]]

\* Mutant of Upsert: the new entry is appended, older ones are kept.
UpsertAppends(files_list, file_entry) == Append(files_list, file_entry)

\* Lines 202-205: every entry with the path is removed, the new one appended.
Upsert(files_list, file_entry) ==
    LET keep == {k \in 1..Len(files_list) : files_list[k].path # file_entry.path}
        F[k \in 0..Len(files_list)] ==
            IF k = 0 THEN <<>>
            ELSE IF k \in keep THEN Append(F[k - 1], files_list[k]) ELSE F[k - 1]
    IN Append(F[Len(files_list)], file_entry)

\* Mutant of HashMatches: the downloaded bytes are never rejected.
HashMatchesAlways(data, primary_file) == TRUE

\* Line 184: the downloaded bytes have the declared sha1.
HashMatches(data, primary_file) == Sha1(data) = primary_file.hashes.sha1

\* Line 175: dest.write_bytes(data).
WriteBytes(dir, filename, data) == [dir EXCEPT ![filename] = data]

\* Mutant of Unlink: the file is left where it was written.
UnlinkKeeps(dir, filename) == dir

\* Line 185: dest.unlink(missing_ok=True).
Unlink(dir, filename) == [dir EXCEPT ![filename] = Absent]

\* ------------------------------------------------- scenarios of the resolver
\* The remote catalog of one id, built from the shape of its version list and
\* the dependencies of the version the shape makes selectable.  The other
\* versions of a shape carry a dependency of their own (Decoy).
Decoy == <<Dependency("required", "p3")>>

BuildVersions(shape, deps) ==
    CASE shape = "release" ->
           <<ProjectVersion("beta", {mc_version}, {loader}, Decoy),
             ProjectVersion("release", {mc_version}, {loader}, deps)>>
      [] shape = "beta" ->
           <<ProjectVersion("release", {"1.20.1"}, {loader}, Decoy),
             ProjectVersion("beta", {mc_version}, {loader}, deps),
             ProjectVersion("alpha", {mc_version}, {loader}, Decoy)>>
      [] shape = "nocompat" ->
           <<ProjectVersion("release", {mc_version}, {"forge"}, deps)>>

HitFor(pid) == <<Hit(pid, "mod", {mc_version})>>

\* A response whose first two hits do not qualify.
HitBehindOthers(pid) ==
    <<Hit("p3", "modpack", {mc_version}), Hit("p2", "mod", {"1.20.1"}),
      Hit(pid, "mod", {mc_version})>>

\* A response whose second hit is the project pid, behind another qualifying
\* hit.
HitBehindQualifying(pid) == <<Hit("p3", "mod", {mc_version})>> \o HitFor(pid)

BaseScenario ==
    [mods  |-> {"sodium", "optifine"},
     rules |-> <<>>,
     hits  |-> [n \in Names |->
                  CASE n = "sodium" -> HitFor("p1")
                    [] n = "optifine" -> HitFor("p2")
                    [] n = "indium" -> HitFor("p3")],
     shape |-> [p \in Ids |-> "release"],
     deps  |-> [p \in Ids |-> <<>>],
     failing |-> {}]

Features ==
    {<<"edge", src, dt, tgt>> : src \in Ids, dt \in {"required", "incompatible"},
                                tgt \in Ids \cup {NoId}}
    \cup {<<"edge", src, dt, "p3">> : src \in Ids, dt \in {"optional", "embedded"}}
    \cup {<<"shape", p, sh>> : p \in Ids, sh \in {"beta", "nocompat"}}
    \cup {<<"rule", "sodium", Rule({}, {"indium"})>>,
          <<"rule", "sodium", Rule({"optifine"}, {})>>,
          <<"rule", "optifine", Rule({}, {"sodium"})>>}
    \cup {<<"hits", n, h>> : n \in {"sodium", "optifine"},
                             h \in {<<>>, HitFor("p1"), HitBehindOthers("p3")}}
    \cup {<<"hits", "sodium", HitBehindQualifying("p1")>>}
    \cup {<<"mods", {"sodium"}>>, <<"mods", {}>>}
    \cup {<<"fail", x>> : x \in Names \cup Ids}

ApplyFeature(sc, f) ==
    CASE f[1] = "edge" ->
           [sc EXCEPT !.deps[f[2]] = Append(@, Dependency(f[3], f[4]))]
      [] f[1] = "shape" -> [sc EXCEPT !.shape[f[2]] = f[3]]
      [] f[1] = "rule" -> [sc EXCEPT !.rules = (f[2] :> f[3]) @@ @]
      [] f[1] = "hits" -> [sc EXCEPT !.hits[f[2]] = f[3]]
      [] f[1] = "mods" -> [sc EXCEPT !.mods = f[2]]
      [] f[1] = "fail" -> [sc EXCEPT !.failing = @ \cup {f[2]}]

RECURSIVE ApplyFeatures(_, _)
ApplyFeatures(sc, fs) ==
    IF fs = <<>> THEN sc ELSE ApplyFeatures(ApplyFeature(sc, Head(fs)), Tail(fs))

FeatureSeqs == UNION {[1..n -> Features] : n \in 0..MaxFeatures}

CatalogOf(sc) == [p \in Ids |-> BuildVersions(sc.shape[p], sc.deps[p])]

\* ----------------------------------------------- scenarios of the downloader
\* The ids handed to download_all.
DlIds == {"p1", "p2"}

FileNames == {"a.jar", "b.jar", "x.jar"}

OtherFile == File("x.jar", "ux", FALSE, "hx", 9)

\* The version list of an id, built from its shape and its file f.
BuildDownloadVersions(shape, f) ==
    CASE shape = "single" ->
           <<VersionWithFiles("release", {mc_version}, {loader}, 1, <<f>>)>>
      [] shape = "noversions" -> <<>>
      [] shape = "nocompat" ->
           <<VersionWithFiles("release", {"1.20.1"}, {loader}, 1, <<f>>)>>
      [] shape = "nofile" ->
           <<VersionWithFiles("release", {mc_version}, {loader}, 1, <<>>)>>
      [] shape = "secondprimary" ->
           <<VersionWithFiles("release", {mc_version}, {loader}, 1, <<OtherFile, f>>)>>
      [] shape = "noprimary" ->
           <<VersionWithFiles("release", {mc_version}, {loader}, 1,
                              <<[f EXCEPT !.primary = FALSE], OtherFile>>)>>
      [] shape = "twoprimary" ->
           <<VersionWithFiles("release", {mc_version}, {loader}, 1,
                              <<[OtherFile EXCEPT !.primary = FALSE], f,
                                [OtherFile EXCEPT !.primary = TRUE]>>)>>
      [] shape = "newerbeta" ->
           <<VersionWithFiles("beta", {mc_version}, {"Fabric"}, 2, <<OtherFile>>),
             VersionWithFiles("release", {mc_version}, {"Fabric"}, 1, <<f>>)>>

BaseDownload ==
    [file    |-> [p \in DlIds |-> IF p = "p1" THEN File("a.jar", "u1", TRUE, "h1", 1)
                                  ELSE File("b.jar", "u2", TRUE, "h2", 2)],
     shape   |-> [p \in DlIds |-> "single"],
     served  |-> [u \in {"u1", "u2", "ux"} |->
                    CASE u = "u1" -> "d1" [] u = "u2" -> "d2" [] u = "ux" -> "dx"],
     failing |-> {},
     index   |-> <<>>,
     disk    |-> [f \in FileNames |-> Absent]]

\* An index entry for the file name with the hashes of data.
EntryFor(filename, data) ==
    FileEntry(File(filename, "u0", TRUE, Sha1(data), 0), data)

DownloadFeatures ==
    {<<"filename", "p2", "a.jar">>, <<"samefile", "p2", "p1">>}
    \cup {<<"serve", u, "dx">> : u \in {"u1", "u2"}}
    \cup {<<"fail", x>> : x \in DlIds \cup {"u1", "u2"}}
    \cup {<<"have", f, d>> : f \in {"a.jar", "b.jar"}, d \in {"d1", "d2"}}
    \cup {<<"entry", "a.jar", "d1">>, <<"entry", "b.jar", "d2">>}
    \cup {<<"disk", f, d>> : f \in {"a.jar", "b.jar"}, d \in {"d1", "d2"}}
    \cup {<<"shape", "p2", sh>> :
            sh \in {"noversions", "nocompat", "nofile", "secondprimary",
                    "noprimary", "twoprimary", "newerbeta"}}

ApplyDownloadFeature(sc, f) ==
    CASE f[1] = "filename" -> [sc EXCEPT !.file[f[2]].filename = f[3]]
      [] f[1] = "samefile" -> [sc EXCEPT !.file[f[2]] = sc.file[f[3]]]
      [] f[1] = "serve" -> [sc EXCEPT !.served[f[2]] = f[3]]
      [] f[1] = "fail" -> [sc EXCEPT !.failing = @ \cup {f[2]}]
      [] f[1] = "have" -> [sc EXCEPT !.index = Append(@, EntryFor(f[2], f[3])),
                                      !.disk[f[2]] = f[3]]
      [] f[1] = "entry" -> [sc EXCEPT !.index = Append(@, EntryFor(f[2], f[3]))]
      [] f[1] = "disk" -> [sc EXCEPT !.disk[f[2]] = f[3]]
      [] f[1] = "shape" -> [sc EXCEPT !.shape[f[2]] = f[3]]

RECURSIVE ApplyDownloadFeatures(_, _)
ApplyDownloadFeatures(sc, fs) ==
    IF fs = <<>> THEN sc
    ELSE ApplyDownloadFeatures(ApplyDownloadFeature(sc, Head(fs)), Tail(fs))

\* Number of features a scenario of the downloader differs in from the base.
MaxDownloadFeatures == 3

DownloadFeatureSeqs == UNION {[1..n -> DownloadFeatures] : n \in 0..MaxDownloadFeatures}

DownloadCatalogOf(sc) ==
    [p \in Ids |-> IF p \in DlIds THEN BuildDownloadVersions(sc.shape[p], sc.file[p])
                   ELSE <<>>]

\* ==================================================================== state
VARIABLES
    \* inputs of ModResolver.resolve and the remote service
    mods,              \* the requested names
    rules,             \* ModPolicy.rules, normalized
    hits,              \* the search response for each name
    catalog,           \* the version list of each project id
    failing,           \* the names and ids whose request raises
    \* ModResolver.resolve
    pc,                \* position of resolve
    expanded,          \* policy.apply(mods)
    slugs_to_search,   \* expanded in its iteration order
    search_pending,    \* names whose search task has not completed
    search_results,    \* name -> result of its completed search task
    search_cache,
    resolved,
    queue,
    version_cache,     \* id -> version list, for the ids fetched so far
    batch,
    projects_to_fetch,
    fetch_pending,     \* indices of projects_to_fetch whose task has not completed
    version_results,   \* index of projects_to_fetch -> result of its task
    bi,                \* index in batch of the id being processed
    di,                \* index of the dependency examined next (0: version not selected)
    error,             \* <<pid, dep_id>> of the raised RuntimeError, or <<>>
    \* history
    enq_count,         \* id -> number of times it was appended to queue
    fetch_count,       \* id -> number of version-list requests issued for it
    \* inputs of ModDownloader and its environment
    served,            \* url -> the bytes the remote serves for it
    disk,              \* file name -> the bytes of output_dir/name, or Absent
    index_file,        \* the "files" list of the index file on disk
    \* ModDownloader
    index,             \* self.index["files"]
    dpc,               \* position of download_all
    tpc,               \* id -> position of its _download_project task
    primary_file,      \* id -> the local primary_file of its task
    completed,         \* the finished tasks in completion order
    consumed,          \* number of finished tasks download_all has awaited
    run,               \* number of the download_all call
    \* history
    dl_count,          \* id -> artifact download requests issued in this run
    registered,        \* ids that registered a file in this run
    prev_registered,   \* ids that registered a file in the previous run
    prev_index,        \* self.index["files"] at the end of the previous run
    start_consistent,  \* the first run started with index and files consistent
    start_unique,      \* the first run started with at most one entry per path
    index_file_before  \* the index file when the current call of download_all began

inputVars == <<mods, rules, hits, catalog, failing>>

phase1Vars == <<expanded, slugs_to_search, search_pending, search_results, search_cache>>

phase2Vars == <<version_cache, batch, projects_to_fetch, fetch_pending, version_results, bi, di>>

resolverVars ==
    <<inputVars, pc, phase1Vars, resolved, queue, phase2Vars, error, enq_count, fetch_count>>

\* ModDownloader._select_compatible_version and ModResolver._select_version,
\* called on their own on the same version list
VARIABLES
    spc,               \* position of the calls
    versions_arg,      \* the argument versions
    selected,          \* what _select_compatible_version returned: <<v>>, or <<>> for None
    resolver_selected  \* what _select_version returned: <<v>>, or <<>> for None

selectVars == <<spc, versions_arg, selected, resolver_selected>>

\* ModPolicy.apply and ModPolicy.diff, called on their own
VARIABLES
    ppc,               \* position of the call
    requested,         \* the argument mods of the apply call
    active,            \* apply: the set active
    to_process,        \* apply: the work queue
    todo,              \* apply: the mods `for mod in active` has yet to visit
    final_mods,        \* apply: the set final_mods; the result once returned
    diff_result,       \* what diff returned
    calls,             \* number of the apply call
    call_kind,         \* how the argument of this call was chosen
    \* history
    queued,            \* mod -> times it entered to_process in this call
    prev_requested,    \* the argument of the previous call
    prev_result        \* the result of the previous call

policyVars ==
    <<ppc, requested, active, to_process, todo, final_mods, diff_result, calls,
      call_kind, queued, prev_requested, prev_result>>

\* ModPolicy.__init__, called on its own
VARIABLES
    cpc,               \* position of the constructor
    policy_file,       \* what is at policy_path
    schema_response,   \* what SCHEMA_URL serves
    raised,            \* the exception that left the constructor, "none" without one
    self_rules,        \* self.rules
    apply_result       \* what apply returned on the constructed policy

constructVars == <<cpc, policy_file, schema_response, raised, self_rules, apply_result>>

\* the resolve command
VARIABLES
    manifest_file      \* the mod list of the manifest on disk

\* save_registry_atomic and load_registry on one registry path
VARIABLES
    registry_file,     \* the file at path: <<>> without one, else <<text>>
    temp_file,         \* the temporary file of the save: <<>> without one, else <<text>>
    registry_arg,      \* the argument registry of save_registry_atomic
    svpc,              \* position of save_registry_atomic
    ldpc,              \* position of load_registry
    loaded,            \* what load_registry returned
    backup_made,       \* load_registry copied the file to a .corrupt backup
    registry_before    \* the file at path when the calls began

registryVars ==
    <<registry_file, temp_file, registry_arg, svpc, ldpc, loaded, backup_made,
      registry_before>>

downloadVars ==
    <<served, disk, index_file, index, dpc, tpc, primary_file, completed, consumed, run,
      dl_count, registered, prev_registered, prev_index, start_consistent,
      start_unique, index_file_before>>

vars == <<resolverVars, downloadVars, policyVars, selectVars, registryVars, constructVars, manifest_file>>

\* Occurrences of x in the sequence s.
Count(s, x) == Cardinality({i \in 1..Len(s) : s[i] = x})

\* No call of a version selector on its own is in progress.
SelectIdle ==
    /\ spc = "idle"
    /\ versions_arg = <<>>
    /\ selected = <<>>
    /\ resolver_selected = <<>>

\* No ModPolicy is being constructed on its own.
ConstructIdle ==
    /\ cpc = "idle"
    /\ policy_file = [kind |-> "none"]
    /\ schema_response = "none"
    /\ raised = "none"
    /\ self_rules = <<>>
    /\ apply_result = {}

\* Neither registry function is called.
RegistryIdle ==
    /\ registry_file = <<>>
    /\ temp_file = <<>>
    /\ registry_arg = <<>>
    /\ svpc = "idle"
    /\ ldpc = "idle"
    /\ loaded = <<>>
    /\ backup_made = FALSE
    /\ registry_before = <<>>

\* No call of the policy on its own is in progress.
PolicyIdle ==
    /\ ppc = "idle"
    /\ requested = {}
    /\ active = {}
    /\ to_process = <<>>
    /\ todo = {}
    /\ final_mods = {}
    /\ diff_result = <<>>
    /\ calls = 0
    /\ call_kind = "none"
    /\ queued = <<>>
    /\ prev_requested = {}
    /\ prev_result = {}

\* No ModDownloader exists.
DownloaderIdle ==
    /\ served = <<>>
    /\ disk = <<>>
    /\ index_file = <<>>
    /\ index = <<>>
    /\ dpc = "idle"
    /\ tpc = <<>>
    /\ primary_file = <<>>
    /\ completed = <<>>
    /\ consumed = 0
    /\ run = 0
    /\ dl_count = <<>>
    /\ registered = {}
    /\ prev_registered = {}
    /\ prev_index = <<>>
    /\ start_consistent = TRUE
    /\ start_unique = TRUE
    /\ index_file_before = <<>>

\* ------------------------------------------------------------ resolve: Init
InitResolve ==
    /\ \E fs \in FeatureSeqs :
         LET sc == ApplyFeatures(BaseScenario, fs)
         IN /\ mods = sc.mods
            /\ rules = sc.rules
            /\ hits = sc.hits
            /\ catalog = CatalogOf(sc)
            /\ failing = sc.failing
    /\ pc = "start"
    /\ expanded = {}
    /\ slugs_to_search = <<>>
    /\ search_pending = {}
    /\ search_results = <<>>
    /\ search_cache = <<>>
    /\ resolved = {}
    /\ queue = <<>>
    /\ version_cache = <<>>
    /\ batch = <<>>
    /\ projects_to_fetch = <<>>
    /\ fetch_pending = {}
    /\ version_results = <<>>
    /\ bi = 0
    /\ di = 0
    /\ error = <<>>
    /\ enq_count = [p \in Ids |-> 0]
    /\ fetch_count = [p \in Ids |-> 0]
    /\ DownloaderIdle
    /\ PolicyIdle
    /\ SelectIdle
    /\ ConstructIdle
    /\ RegistryIdle
    /\ manifest_file = Sorted(mods)

\* --------------------------------------------------------- resolve: phase 1
\* Lines 97-112: the policy is applied and one search task per name of
\* expanded is created; the iteration orders of the sets are arbitrary.
ResolveStart ==
    /\ pc = "start"
    /\ \E ord \in NameOrders : expanded' = PolicyApply(rules, mods, ord)
    /\ \E iter \in NameOrders : slugs_to_search' = OrderBy(expanded', iter)
    /\ search_pending' = expanded'
    /\ search_results' = <<>>
    /\ pc' = "gather_search"
    /\ UNCHANGED <<inputVars, search_cache, resolved, queue, phase2Vars, error, enq_count, fetch_count,
                   downloadVars, policyVars, selectVars, registryVars, constructVars, manifest_file>>

\* Lines 50-71: what a search task returns: the id of the first qualifying
\* hit or None; an exception is caught and gives None.
SearchOutcome(slug) ==
    IF slug \in failing THEN NoId ELSE SearchProject(hits[slug])

\* Lines 50-71: one search task completes.
SearchReturn(slug) ==
    /\ pc = "gather_search"
    /\ slug \in search_pending
    /\ search_pending' = search_pending \ {slug}
    /\ search_results' = (slug :> SearchOutcome(slug)) @@ search_results
    /\ UNCHANGED <<inputVars, pc, expanded, slugs_to_search, search_cache, resolved,
                   queue, phase2Vars, error, enq_count, fetch_count,
                   downloadVars, policyVars, selectVars, registryVars, constructVars, manifest_file>>

\* Mutant of ShouldEnqueue: the membership test is dropped.
ShouldEnqueueAnyFound(project_id, res) == project_id # NoId

\* Line 127: a found id is enqueued unless it is already resolved.
ShouldEnqueue(project_id, res) == project_id # NoId /\ project_id \notin res

\* Mutant of EnqueueFound: a found id is enqueued without being added to the
\* resolved set.
RECURSIVE EnqueueFoundUnresolved(_, _, _, _)
EnqueueFoundUnresolved(slugs, cache, res, q) ==
    IF slugs = <<>> THEN <<res, q>>
    ELSE LET project_id == IF Head(slugs) \in DOMAIN cache THEN cache[Head(slugs)] ELSE NoId
         IN IF ShouldEnqueue(project_id, res)
            THEN EnqueueFoundUnresolved(Tail(slugs), cache, res, Append(q, project_id))
            ELSE EnqueueFoundUnresolved(Tail(slugs), cache, res, q)

\* Lines 125-129, over the names in iteration order: <<resolved, queue>>.
RECURSIVE EnqueueFound(_, _, _, _)
EnqueueFound(slugs, cache, res, q) ==
    IF slugs = <<>> THEN <<res, q>>
    ELSE LET project_id == IF Head(slugs) \in DOMAIN cache THEN cache[Head(slugs)] ELSE NoId
         IN IF ShouldEnqueue(project_id, res)
            THEN EnqueueFound(Tail(slugs), cache, res \cup {project_id}, Append(q, project_id))
            ELSE EnqueueFound(Tail(slugs), cache, res, q)

\* Lines 114-129: gather returns once every search task has completed; the
\* results are cached and the found ids enqueued.
GatherSearch ==
    /\ pc = "gather_search"
    /\ search_pending = {}
    /\ search_cache' = search_results
    /\ LET rq == EnqueueFound(slugs_to_search, search_results, resolved, queue)
       IN /\ resolved' = rq[1]
          /\ queue' = rq[2]
          /\ enq_count' = [p \in DOMAIN enq_count |-> enq_count[p] + Count(rq[2], p) - Count(queue, p)]
    /\ pc' = "loop"
    /\ UNCHANGED <<inputVars, expanded, slugs_to_search, search_pending, search_results,
                   phase2Vars, error, fetch_count,
                   downloadVars, policyVars, selectVars, registryVars, constructVars, manifest_file>>

\* --------------------------------------------------------- resolve: phase 2
\* The ids of the sequence b that are not in the version cache, in order.
RECURSIVE NotCached(_, _)
NotCached(b, cache) ==
    IF b = <<>> THEN <<>>
    ELSE IF Head(b) \in DOMAIN cache THEN NotCached(Tail(b), cache)
         ELSE <<Head(b)>> \o NotCached(Tail(b), cache)

\* Mutant of BatchOf: the whole queue is one batch.
BatchOfWholeQueue(q) == q

\* Lines 136-139: the next batch, up to BATCH_SIZE ids from the front of q.
BatchOf(q) == SubSeq(q, 1, Min(Len(q), BATCH_SIZE))

\* Mutant of RestOf: the batch is read but not removed from the queue.
RestOfKeepsBatch(q, b) == q

\* Lines 138-139: what popleft leaves of q once the batch b is taken.
RestOf(q, b) == SubSeq(q, Len(b) + 1, Len(q))

\* Lines 134-148: a wave starts; the batch leaves the queue and one fetch
\* task is created for every id of the batch that is not cached.
TakeBatch ==
    /\ pc = "loop"
    /\ queue # <<>>
    /\ LET b == BatchOf(queue)
           fetch == NotCached(b, version_cache)
       IN /\ batch' = b
          /\ queue' = RestOf(queue, b)
          /\ projects_to_fetch' = fetch
          /\ fetch_pending' = 1..Len(fetch)
          /\ fetch_count' = [p \in DOMAIN fetch_count |-> fetch_count[p] + Count(fetch, p)]
    /\ version_results' = <<>>
    /\ pc' = "gather_versions"
    /\ UNCHANGED <<inputVars, phase1Vars, resolved, version_cache, bi, di, error, enq_count,
                   downloadVars, policyVars, selectVars, registryVars, constructVars, manifest_file>>

\* Mutant of FetchOutcome: a failed fetch still delivers the version list.
FetchOutcomeIgnoresFailure(pid) == catalog[pid]

\* Lines 73-84: one fetch task completes, with the version list of its id;
\* an exception is caught and gives the empty list.
FetchOutcome(pid) == IF pid \in failing THEN <<>> ELSE catalog[pid]

\* Lines 73-84: one fetch task completes.
FetchReturn(i) ==
    /\ pc = "gather_versions"
    /\ i \in fetch_pending
    /\ fetch_pending' = fetch_pending \ {i}
    /\ version_results' = (i :> FetchOutcome(projects_to_fetch[i])) @@ version_results
    /\ UNCHANGED <<inputVars, pc, phase1Vars, resolved, queue, version_cache, batch,
                   projects_to_fetch, bi, di, error, enq_count, fetch_count,
                   downloadVars, policyVars, selectVars, registryVars, constructVars, manifest_file>>

\* Lines 153-158: the results enter the cache in the order of projects_to_fetch.
RECURSIVE CacheResults(_, _, _, _)
CacheResults(fetch, results, i, cache) ==
    IF i > Len(fetch) THEN cache
    ELSE CacheResults(fetch, results, i + 1, (fetch[i] :> results[i]) @@ cache)

\* Lines 150-158: gather returns once every fetch task has completed.
GatherVersions ==
    /\ pc = "gather_versions"
    /\ fetch_pending = {}
    /\ version_cache' = CacheResults(projects_to_fetch, version_results, 1, version_cache)
    /\ bi' = 1
    /\ di' = 0
    /\ pc' = "process"
    /\ UNCHANGED <<inputVars, phase1Vars, resolved, queue, batch, projects_to_fetch,
                   fetch_pending, version_results, error, enq_count, fetch_count,
                   downloadVars, policyVars, selectVars, registryVars, constructVars, manifest_file>>

\* Line 162-163: the version selected for pid from the cache.
SelectedOf(cache, pid) ==
    SelectVersion(IF pid \in DOMAIN cache THEN cache[pid] ELSE <<>>)

\* Mutant of DepsOf: without a selected version the dependencies of the
\* first listed version are taken.
DepsOfFirstListed(cache, pid) ==
    LET version == SelectedOf(cache, pid)
    IN IF version # <<>> THEN version[1].dependencies
       ELSE IF pid \in DOMAIN cache /\ cache[pid] # <<>> THEN cache[pid][1].dependencies
       ELSE <<>>

\* The dependencies resolve iterates over for pid (none without a version).
DepsOf(cache, pid) ==
    LET version == SelectedOf(cache, pid)
    IN IF version = <<>> THEN <<>> ELSE version[1].dependencies

\* Lines 161-167: the next id of the batch is taken and its version
\* selected; without a version (or dependencies) the id is done.  After the
\* last id the wave ends.
ProcessNext ==
    /\ pc = "process"
    /\ di = 0
    /\ IF bi > Len(batch)
       THEN /\ pc' = "loop"
            /\ UNCHANGED <<bi, di>>
       ELSE /\ IF DepsOf(version_cache, batch[bi]) = <<>>
               THEN bi' = bi + 1 /\ di' = 0
               ELSE bi' = bi /\ di' = 1
            /\ UNCHANGED pc
    /\ UNCHANGED <<inputVars, phase1Vars, resolved, queue, version_cache, batch,
                   projects_to_fetch, fetch_pending, version_results, error, enq_count, fetch_count,
                   downloadVars, policyVars, selectVars, registryVars, constructVars, manifest_file>>

\* Mutant of RaisesConflict: the membership test is inverted.
RaisesConflictUnlessResolved(dtype, dep_id, res) ==
    dtype = "incompatible" /\ dep_id \notin res

\* Mutant of RaisesConflict: only a resolved target aborts.
RaisesConflictIfResolved(dtype, dep_id, res) ==
    dtype = "incompatible" /\ dep_id \in res

\* Mutant of FollowsDependency: optional dependencies are not followed.
FollowsRequiredOnly(dtype, dep_id, res) ==
    dtype = "required" /\ dep_id \notin res

\* Line 176: the dependency aborts resolve.
RaisesConflict(dtype, dep_id, res) == dtype = "incompatible"

\* Line 179: the dependency is added to the resolved set and enqueued.
FollowsDependency(dtype, dep_id, res) ==
    dtype \in {"required", "optional"} /\ dep_id \notin res

\* Lines 169-181: one dependency of the selected version is examined.
ExamineDependency ==
    /\ pc = "process"
    /\ di > 0
    /\ LET pid == batch[bi]
           deps == DepsOf(version_cache, pid)
           dtype == deps[di].dependency_type
           dep_id == deps[di].project_id
           last == di = Len(deps)
       IN IF dep_id # NoId /\ RaisesConflict(dtype, dep_id, resolved)
          THEN /\ pc' = "aborted"
               /\ error' = <<pid, dep_id>>
               /\ UNCHANGED <<resolved, queue, bi, di, enq_count>>
          ELSE /\ IF dep_id # NoId /\ FollowsDependency(dtype, dep_id, resolved)
                  THEN /\ resolved' = resolved \cup {dep_id}
                       /\ queue' = Append(queue, dep_id)
                       /\ enq_count' = [enq_count EXCEPT ![dep_id] = @ + 1]
                  ELSE UNCHANGED <<resolved, queue, enq_count>>
               /\ bi' = IF last THEN bi + 1 ELSE bi
               /\ di' = IF last THEN 0 ELSE di + 1
               /\ UNCHANGED <<pc, error>>
    /\ UNCHANGED <<inputVars, phase1Vars, version_cache, batch, projects_to_fetch,
                   fetch_pending, version_results, fetch_count,
                   downloadVars, policyVars, selectVars, registryVars, constructVars, manifest_file>>

\* Lines 134, 183-184: the queue is empty; resolve returns resolved.
ResolveReturn ==
    /\ pc = "loop"
    /\ queue = <<>>
    /\ pc' = "done"
    /\ UNCHANGED <<inputVars, phase1Vars, resolved, queue, phase2Vars, error, enq_count, fetch_count,
                   downloadVars, policyVars, selectVars, registryVars, constructVars, manifest_file>>

NextResolve ==
    \/ ResolveStart
    \/ \E slug \in Names : SearchReturn(slug)
    \/ GatherSearch
    \/ TakeBatch
    \/ \E i \in 1..BATCH_SIZE : FetchReturn(i)
    \/ GatherVersions
    \/ ProcessNext
    \/ ExamineDependency
    \/ ResolveReturn

Spec == InitResolve /\ [][NextResolve]_vars

\* Every task that can complete does, and the coordinator keeps running.
FairSpec == Spec /\ WF_vars(NextResolve)

\* ------------------------------------------------------ the resolve command
\* sorted(): the ids of S in the order of Python's string comparison.
SortedIds == <<"p1", "p2", "p3">>

\* Mutant of CommandExit: the ids resolved so far are written on the way out.
CommandExitWriting ==
    /\ pc = "aborted"
    /\ manifest_file' = OrderBy(resolved, SortedIds)
    /\ pc' = "exited"
    /\ UNCHANGED <<inputVars, phase1Vars, resolved, queue, phase2Vars, error, enq_count,
                   fetch_count, downloadVars, policyVars, selectVars, registryVars, constructVars>>

\* modpack.py lines 105-109: resolve raised; the command reports the error and
\* exits.
CommandExit ==
    /\ pc = "aborted"
    /\ pc' = "exited"
    /\ UNCHANGED <<inputVars, phase1Vars, resolved, queue, phase2Vars, error, enq_count,
                   fetch_count, downloadVars, policyVars, selectVars, registryVars, constructVars,
                   manifest_file>>

\* modpack.py lines 105-112: resolve returned; the mod list of the manifest
\* becomes the sorted list of the resolved ids and the manifest is written.
CommandWrite ==
    /\ pc = "done"
    /\ manifest_file' = OrderBy(resolved, SortedIds)
    /\ pc' = "written"
    /\ UNCHANGED <<inputVars, phase1Vars, resolved, queue, phase2Vars, error, enq_count,
                   fetch_count, downloadVars, policyVars, selectVars, registryVars, constructVars>>

NextCommand == NextResolve \/ CommandExit \/ CommandWrite

\* The resolve command on a loaded manifest, from its call of resolve on.
SpecCommand == InitResolve /\ [][NextCommand]_vars

\* ------------------------------------------- resolve on a wide dependency fan
\* Number of further projects one version depends on.
MaxFan == 11

\* Ids of projects that are reached as dependencies only.
FanIds == <<"p4", "p5", "p6", "p7", "p8", "p9", "p10", "p11", "p12", "p13", "p14", "p15">>

\* n dependencies of the type dtype, on the first n fan projects.
FanDeps(dtype, n) == [i \in 1..n |-> Dependency(dtype, FanIds[i])]

\* resolve is called on the base scenario, in which the selected version of
\* src depends on n fan projects, each with one compatible release that
\* depends on nothing.
InitWaves ==
    /\ \E src \in {"p1", "p2"}, dtype \in {"required", "optional"}, n \in 0..MaxFan :
         LET sc == [BaseScenario EXCEPT !.deps[src] = FanDeps(dtype, n)]
         IN /\ mods = sc.mods
            /\ rules = sc.rules
            /\ hits = sc.hits
            /\ catalog = CatalogOf(sc) @@ [p \in Range(FanIds) |-> BuildVersions("release", <<>>)]
            /\ failing = sc.failing
    /\ pc = "start"
    /\ expanded = {}
    /\ slugs_to_search = <<>>
    /\ search_pending = {}
    /\ search_results = <<>>
    /\ search_cache = <<>>
    /\ resolved = {}
    /\ queue = <<>>
    /\ version_cache = <<>>
    /\ batch = <<>>
    /\ projects_to_fetch = <<>>
    /\ fetch_pending = {}
    /\ version_results = <<>>
    /\ bi = 0
    /\ di = 0
    /\ error = <<>>
    /\ enq_count = [p \in DOMAIN catalog |-> 0]
    /\ fetch_count = [p \in DOMAIN catalog |-> 0]
    /\ DownloaderIdle
    /\ PolicyIdle
    /\ SelectIdle
    /\ ConstructIdle
    /\ RegistryIdle
    /\ manifest_file = Sorted(mods)

SpecWaves == InitWaves /\ [][NextResolve]_vars

\* ============================================================ ModDownloader
\* No resolve call is in progress.
ResolveNotCalled ==
    /\ pc = "idle"
    /\ expanded = {}
    /\ slugs_to_search = <<>>
    /\ search_pending = {}
    /\ search_results = <<>>
    /\ search_cache = <<>>
    /\ resolved = {}
    /\ queue = <<>>
    /\ version_cache = <<>>
    /\ batch = <<>>
    /\ projects_to_fetch = <<>>
    /\ fetch_pending = {}
    /\ version_results = <<>>
    /\ bi = 0
    /\ di = 0
    /\ error = <<>>
    /\ enq_count = <<>>
    /\ fetch_count = <<>>

ResolverIdle ==
    /\ mods = {}
    /\ rules = <<>>
    /\ hits = <<>>
    /\ ResolveNotCalled

\* Every index entry whose local file exists has the sha1 of that file.
Consistent(files_list, dir) ==
    \A i \in 1..Len(files_list) :
        LET name == files_list[i].path[2]
        IN dir[name] # Absent => Sha1(dir[name]) = files_list[i].hashes.sha1

\* The index holds at most one entry per path.
UniquePaths(files_list) ==
    \A i, j \in 1..Len(files_list) :
        files_list[i].path = files_list[j].path => i = j

\* Number of download_all calls in a behaviour.
MaxRuns == 2

NoFile == <<>>

\* Line 88: one task per id is created; none has run yet.
TasksCreated ==
    /\ tpc = [t \in DlIds |-> "fetch"]
    /\ primary_file = [t \in DlIds |-> NoFile]
    /\ completed = <<>>
    /\ consumed = 0
    /\ dl_count = [t \in DlIds |-> 0]
    /\ registered = {}

\* Lines 28-39 and 88: a ModDownloader is constructed over an index file and
\* an output directory, and download_all has created its tasks.
InitDownload ==
    /\ ResolverIdle
    /\ PolicyIdle
    /\ SelectIdle
    /\ ConstructIdle
    /\ RegistryIdle
    /\ manifest_file = <<>>
    /\ \E fs \in DownloadFeatureSeqs :
         LET sc == ApplyDownloadFeatures(BaseDownload, fs)
         IN /\ catalog = DownloadCatalogOf(sc)
            /\ failing = sc.failing
            /\ served = sc.served
            /\ disk = sc.disk
            /\ index_file = sc.index
            /\ index_file_before = sc.index
            /\ index = sc.index
            /\ start_consistent = Consistent(sc.index, sc.disk)
            /\ start_unique = UniquePaths(sc.index)
    /\ dpc = "running"
    /\ run = 1
    /\ TasksCreated
    /\ prev_registered = {}
    /\ prev_index = <<>>

\* Mutant of Finish: every end of a task is a raise.
FinishRaising(t, how) ==
    /\ tpc' = [tpc EXCEPT ![t] = "raised"]
    /\ completed' = Append(completed, t)

\* The task of id t ends: normally, or by raising.
Finish(t, how) ==
    /\ tpc' = [tpc EXCEPT ![t] = how]
    /\ completed' = Append(completed, t)

\* Lines 107-164: the version list of t arrives. The task returns when the
\* request failed, no version is compatible, the version has no file or the
\* file is cached; otherwise it issues the download of the primary file.
VersionsReturn(t) ==
    /\ dpc # "idle"
    /\ tpc[t] = "fetch"
    /\ LET versions == catalog[t]
           version  == SelectCompatibleVersion(versions)
           pf       == PrimaryFile(version[1].files)
       IN IF \/ t \in failing
             \/ versions = <<>>
             \/ version = <<>>
             \/ pf = <<>>
             \/ CacheHit(index, disk, pf[1])
          THEN /\ Finish(t, "done")
               /\ UNCHANGED <<primary_file, dl_count>>
          ELSE /\ tpc' = [tpc EXCEPT ![t] = "download"]
               /\ primary_file' = [primary_file EXCEPT ![t] = pf[1]]
               /\ dl_count' = [dl_count EXCEPT ![t] = @ + 1]
               /\ UNCHANGED completed
    /\ UNCHANGED <<resolverVars, policyVars, selectVars, registryVars, constructVars, manifest_file, served, disk, index_file, index, dpc, consumed, run,
                   registered, prev_registered, prev_index, start_consistent,
                   start_unique, index_file_before>>

\* Lines 168-205: the response of the download of t's primary file arrives.
\* A failed request ends the task. Otherwise the bytes are written to the
\* target path and hashed: on a mismatch the file is removed and the task
\* raises, else the entry of the path is replaced by the new entry.
DownloadReturn(t) ==
    /\ dpc # "idle"
    /\ tpc[t] = "download"
    /\ LET pf   == primary_file[t]
           data == served[pf.url]
       IN IF pf.url \in failing
          THEN /\ Finish(t, "done")
               /\ UNCHANGED <<disk, index, registered>>
          ELSE IF ~HashMatches(data, pf)
          THEN /\ disk' = Unlink(WriteBytes(disk, pf.filename, data), pf.filename)
               /\ Finish(t, "raised")
               /\ UNCHANGED <<index, registered>>
          ELSE /\ disk' = WriteBytes(disk, pf.filename, data)
               /\ index' = Upsert(index, FileEntry(pf, data))
               /\ registered' = registered \cup {t}
               /\ Finish(t, "done")
    /\ UNCHANGED <<resolverVars, policyVars, selectVars, registryVars, constructVars, manifest_file, served, index_file, dpc, primary_file, consumed, run,
                   dl_count, prev_registered, prev_index, start_consistent,
                   start_unique, index_file_before>>

\* Mutant of AwaitNext: the index file is written when the call aborts, too.
AwaitNextWritesOnAbort ==
    /\ dpc = "running"
    /\ consumed < Len(completed)
    /\ LET t == completed[consumed + 1]
       IN IF tpc[t] = "raised"
          THEN /\ dpc' = "aborted"
               /\ index_file' = index
               /\ UNCHANGED consumed
          ELSE /\ consumed' = consumed + 1
               /\ IF consumed' = Cardinality(DlIds)
                  THEN /\ dpc' = "done"
                       /\ index_file' = index
                  ELSE UNCHANGED <<dpc, index_file>>
    /\ UNCHANGED <<resolverVars, policyVars, selectVars, registryVars, constructVars, manifest_file, served, disk, index, tpc, primary_file, completed, run,
                   dl_count, registered, prev_registered, prev_index, start_consistent,
                   start_unique, index_file_before>>

\* Lines 98-103: download_all awaits the next finished task. A task that
\* raised aborts the call; after the last task the index file is written.
AwaitNext ==
    /\ dpc = "running"
    /\ consumed < Len(completed)
    /\ LET t == completed[consumed + 1]
       IN IF tpc[t] = "raised"
          THEN /\ dpc' = "aborted"
               /\ UNCHANGED <<consumed, index_file>>
          ELSE /\ consumed' = consumed + 1
               /\ IF consumed' = Cardinality(DlIds)
                  THEN /\ dpc' = "done"
                       /\ index_file' = index
                  ELSE UNCHANGED <<dpc, index_file>>
    /\ UNCHANGED <<resolverVars, policyVars, selectVars, registryVars, constructVars, manifest_file, served, disk, index, tpc, primary_file, completed, run,
                   dl_count, registered, prev_registered, prev_index, start_consistent,
                   start_unique, index_file_before>>

\* download_all returned normally and is called again with the same ids by
\* a ModDownloader constructed over the same index file and directory.
StartNextRun ==
    /\ dpc = "done"
    /\ run < MaxRuns
    /\ index' = index_file
    /\ dpc' = "running"
    /\ run' = run + 1
    /\ prev_registered' = registered
    /\ prev_index' = index
    /\ tpc' = [t \in DlIds |-> "fetch"]
    /\ primary_file' = [t \in DlIds |-> NoFile]
    /\ completed' = <<>>
    /\ consumed' = 0
    /\ dl_count' = [t \in DlIds |-> 0]
    /\ registered' = {}
    /\ index_file_before' = index_file
    /\ UNCHANGED <<resolverVars, policyVars, selectVars, registryVars, constructVars, manifest_file, served, disk, index_file, start_consistent,
                   start_unique>>

NextDownload ==
    \/ \E t \in DlIds : VersionsReturn(t)
    \/ \E t \in DlIds : DownloadReturn(t)
    \/ AwaitNext
    \/ StartNextRun

SpecDownload == InitDownload /\ [][NextDownload]_vars

\* Every request is answered and download_all is resumed when a task ends.
FairSpecDownload == SpecDownload /\ WF_vars(NextDownload)

\* ================================================================ ModPolicy
\* A rule table is given by its entries <<list, mod, other>>: other is in
\* the list ("conflicts" or "sub_mods") of mod's rule.
RuleEntries == {"conflicts", "sub_mods"} \X Names \X Names

\* Number of entries of a rule table.
MaxRuleEntries == 3

\* Number of apply calls in a behaviour.
MaxCalls == 2

RuleTables == {es \in SUBSET RuleEntries : Cardinality(es) <= MaxRuleEntries}

\* Lines 63-69: the normalized rule table of the entries.
RulesOf(es) ==
    [m \in {e[2] : e \in es} |->
        Rule({e[3] : e \in {x \in es : x[1] = "conflicts" /\ x[2] = m}},
             {e[3] : e \in {x \in es : x[1] = "sub_mods" /\ x[2] = m}})]

\* A policy is loaded and diff(mods) is called; diff calls apply(mods).
InitPolicy ==
    /\ \E es \in RuleTables : rules = RulesOf(es)
    /\ mods \in SUBSET Names
    /\ hits = <<>>
    /\ catalog = <<>>
    /\ failing = {}
    /\ ResolveNotCalled
    /\ DownloaderIdle
    /\ SelectIdle
    /\ ConstructIdle
    /\ RegistryIdle
    /\ manifest_file = <<>>
    /\ ppc = "call"
    /\ requested = mods
    /\ active = {}
    /\ to_process = <<>>
    /\ todo = {}
    /\ final_mods = {}
    /\ diff_result = <<>>
    /\ calls = 1
    /\ call_kind = "diff"
    /\ queued = [m \in Names |-> 0]
    /\ prev_requested = {}
    /\ prev_result = {}

\* Lines 77-81: active is the set of the argument and the work queue holds
\* its elements, in the iteration order of the set.
ApplyStart ==
    /\ ppc = "call"
    /\ active' = requested
    /\ \E ord \in NameOrders : to_process' = OrderBy(requested, ord)
    /\ queued' = [m \in Names |-> IF m \in requested THEN 1 ELSE 0]
    /\ ppc' = "expand"
    /\ UNCHANGED <<resolverVars, downloadVars, selectVars, registryVars, constructVars, manifest_file, requested, todo, final_mods, diff_result,
                   calls, call_kind, prev_requested, prev_result>>

\* Mutant of ShouldAdd: a sub-mod is added whether or not it is active.
ShouldAddAlways(sub, act) == TRUE

\* Line 88: a sub-mod is added when it is not active yet.
ShouldAdd(sub, act) == sub \notin act

\* Mutant of Enqueue: an added sub-mod is not queued for its own sub-mods.
EnqueueNothing(q, fresh) == q

\* Line 91: the added sub-mods join the end of the work queue.
Enqueue(q, fresh) == q \o fresh

\* Lines 82-91: the mod at the front of the queue is taken; those of its
\* sub-mods that are to be added become active and are queued, in the
\* iteration order of the set.
ExpandStep ==
    /\ ppc = "expand"
    /\ to_process # <<>>
    /\ LET current_mod == Head(to_process)
           fresh == {sub \in RuleOf(rules, current_mod).sub_mods : ShouldAdd(sub, active)}
       IN /\ active' = active \cup fresh
          /\ \E ord \in NameOrders :
               to_process' = Enqueue(Tail(to_process), OrderBy(fresh, ord))
          /\ queued' = [m \in Names |-> IF m \in fresh THEN queued[m] + 1 ELSE queued[m]]
    /\ UNCHANGED <<resolverVars, downloadVars, selectVars, registryVars, constructVars, manifest_file, ppc, requested, todo, final_mods, diff_result,
                   calls, call_kind, prev_requested, prev_result>>

\* Lines 82, 95-96: the queue is empty; final_mods is a copy of active and
\* the loop over active begins.
ExpandDone ==
    /\ ppc = "expand"
    /\ to_process = <<>>
    /\ final_mods' = active
    /\ todo' = active
    /\ ppc' = "conflicts"
    /\ UNCHANGED <<resolverVars, downloadVars, selectVars, registryVars, constructVars, manifest_file, requested, active, to_process, diff_result,
                   calls, call_kind, queued, prev_requested, prev_result>>

\* Mutant of ConflictsOf: a mod that was removed removes nothing.
ConflictsOfSurvivor(mod, final) ==
    IF mod \in final THEN RuleOf(rules, mod).conflicts ELSE {}

\* Mutant of ConflictsOf: a mod of the argument is never removed.
ConflictsOfExpansion(mod, final) == RuleOf(rules, mod).conflicts \ requested

\* Lines 97-99: the conflicts the visited mod removes.
ConflictsOf(mod, final) == RuleOf(rules, mod).conflicts

\* Lines 96-101: the loop visits the next mod of active, in the iteration
\* order of the set, and removes its conflicts from final_mods.
ConflictStep ==
    /\ ppc = "conflicts"
    /\ \E mod \in todo :
         /\ final_mods' = final_mods \ ConflictsOf(mod, final_mods)
         /\ todo' = todo \ {mod}
    /\ UNCHANGED <<resolverVars, downloadVars, selectVars, registryVars, constructVars, manifest_file, ppc, requested, active, to_process,
                   diff_result, calls, call_kind, queued, prev_requested, prev_result>>

\* Line 103: apply returns final_mods.
ApplyReturn ==
    /\ ppc = "conflicts"
    /\ todo = {}
    /\ ppc' = "returned"
    /\ UNCHANGED <<resolverVars, downloadVars, selectVars, registryVars, constructVars, manifest_file, requested, active, to_process, todo,
                   final_mods, diff_result, calls, call_kind, queued, prev_requested,
                   prev_result>>

\* Mutant of Added: everything apply returned counts as added.
AddedIsFinal(original, final) == final

\* Line 113: final - original.
Added(original, final) == final \ original

\* Line 114: original - final.
Removed(original, final) == original \ final

\* Lines 109-115: apply has returned to diff, which returns both lists.
DiffReturn ==
    /\ ppc = "returned"
    /\ call_kind = "diff"
    /\ diff_result' = [added   |-> Sorted(Added(requested, final_mods)),
                       removed |-> Sorted(Removed(requested, final_mods))]
    /\ ppc' = "diffed"
    /\ UNCHANGED <<resolverVars, downloadVars, selectVars, registryVars, constructVars, manifest_file, requested, active, to_process, todo,
                   final_mods, calls, call_kind, queued, prev_requested, prev_result>>

\* apply is called again: on the same argument, or on what it returned.
ApplyAgain ==
    /\ ppc = "diffed" \/ (ppc = "returned" /\ call_kind # "diff")
    /\ calls < MaxCalls
    /\ \E kind \in {"same", "result"} :
         /\ call_kind' = kind
         /\ requested' = IF kind = "same" THEN requested ELSE final_mods
    /\ prev_requested' = requested
    /\ prev_result' = final_mods
    /\ calls' = calls + 1
    /\ ppc' = "call"
    /\ UNCHANGED <<resolverVars, downloadVars, selectVars, registryVars, constructVars, manifest_file, active, to_process, todo, final_mods,
                   diff_result, queued>>

NextPolicy ==
    \/ ApplyStart
    \/ ExpandStep
    \/ ExpandDone
    \/ ConflictStep
    \/ ApplyReturn
    \/ DiffReturn
    \/ ApplyAgain

SpecPolicy == InitPolicy /\ [][NextPolicy]_vars

\* A call that can take a step takes it.
FairSpecPolicy == SpecPolicy /\ WF_vars(NextPolicy)

\* ============================================================ resolve: claims
\* What the remote service answers for pid in this scenario.
EffectiveVersions(pid) == IF pid \in failing THEN <<>> ELSE catalog[pid]

EffectiveSearch(name) == IF name \in failing THEN NoId ELSE SearchProject(hits[name])

\* The ids the searches for the names of exp find.
Phase1Ids(exp) == {EffectiveSearch(n) : n \in exp} \ {NoId}

\* The dependencies of the version selected for pid.
SelectedDeps(pid) ==
    LET v == SelectVersion(EffectiveVersions(pid))
    IN IF v = <<>> THEN {} ELSE Range(v[1].dependencies)

\* Targets of the required and optional edges of pid's selected version.
FollowedTargets(pid) ==
    {d.project_id : d \in {x \in SelectedDeps(pid) :
                             /\ x.dependency_type \in {"required", "optional"}
                             /\ x.project_id # NoId}}

RECURSIVE Reach(_)
Reach(S) ==
    LET N == S \cup UNION {FollowedTargets(p) : p \in S}
    IN IF N = S THEN S ELSE Reach(N)

\* C1: when resolve returns normally, the returned set is the ids found in
\* phase 1 for the names of policy.apply(mods) plus everything reachable
\* from them over required/optional edges (with a target id) of the selected
\* versions; nothing else adds an id.
C1_ReturnsClosure ==
    pc = "done" => resolved = Reach(Phase1Ids(expanded))

\* C1 witness: resolve returned a set holding an id no search found, while an
\* edge of another kind, or of an id without a compatible version, was left
\* unfollowed.
C1_Witness ==
    /\ pc = "done"
    /\ resolved \ Phase1Ids(expanded) # {}
    /\ \E p \in resolved, q \in Ids \ resolved :
         \E v \in Range(catalog[p]) : \E d \in Range(v.dependencies) : d.project_id = q

\* The incompatible dependency resolve is about to examine targets an id
\* that is in the resolved set.
ExaminesIncompatibleResolved ==
    /\ pc = "process"
    /\ di > 0
    /\ LET d == DepsOf(version_cache, batch[bi])[di]
       IN /\ d.dependency_type = "incompatible"
          /\ d.project_id \in resolved

\* C2: when resolve, processing A, examines an incompatible dependency of A's
\* selected version on B with B in the resolved set, it aborts with an error
\* naming A and B and returns nothing.
C2_ConflictAborts ==
    [][ExaminesIncompatibleResolved =>
         /\ pc' = "aborted"
         /\ error' = <<batch[bi], DepsOf(version_cache, batch[bi])[di].project_id>>
         /\ resolved' = resolved]_vars

\* C2 witness: resolve aborted on an edge whose target was resolved.
C2_Witness ==
    /\ pc = "aborted"
    /\ error[2] \in resolved
    /\ error[1] # error[2]

\* C3 (as claimed): resolve aborts only on an incompatible edge whose target
\* is in the resolved set when the edge is examined; an incompatible edge to
\* an unresolved id does not abort.
C3_AbortsOnlyOnResolvedTarget ==
    pc = "aborted" => error[2] \in resolved

\* A fixed iteration order, to compute the policy from the inputs alone.
SomeOrder == CHOOSE ord \in NameOrders : TRUE

\* The ids of the closure the inputs determine.
InputClosure == Reach(Phase1Ids(PolicyApply(rules, mods, SomeOrder)))

\* Some id of the closure declares an incompatible dependency with a target.
InputConflict ==
    \E p \in InputClosure : \E d \in SelectedDeps(p) :
        d.dependency_type = "incompatible" /\ d.project_id # NoId

\* C4: resolve terminates for every catalog, cyclic ones included: it
\* aborts, or it returns with the work queue empty.
C4_Terminates ==
    <>(pc = "aborted" \/ (pc = "done" /\ queue = <<>>))

\* C4 witness: resolve returned although a resolved id lies on a dependency
\* cycle.
C4_Witness ==
    /\ pc = "done"
    /\ \E p \in resolved : p \in Reach(FollowedTargets(p))

\* C5: every id is appended to the work queue at most once and its version
\* list is requested at most once.
C5_EnqueuedOnce ==
    \A p \in Ids : enq_count[p] <= 1 /\ fetch_count[p] <= 1

\* C5 witness: resolve returned after two names were found to be the same id
\* and after a resolved id was the target of two followed edges.
C5_Witness ==
    /\ pc = "done"
    /\ \/ \E n, m \in expanded : n # m /\ search_cache[n] = search_cache[m]
                                  /\ search_cache[n] # NoId
       \/ \E p, q, t \in resolved : p # q /\ t \in FollowedTargets(p) \cap FollowedTargets(q)

\* C6: the outcome of resolve is a function of its inputs: whatever the
\* iteration order and the completion order, it aborts iff the closure holds
\* a conflict and otherwise returns the closure.
C6_OutcomeDetermined ==
    /\ pc = "done" => ~InputConflict /\ resolved = InputClosure
    /\ pc = "aborted" => InputConflict

\* C6 witness: two names were enqueued in an order other than SomeOrder's and
\* resolve ended.
C6_Witness ==
    /\ pc \in {"done", "aborted"}
    /\ Len(slugs_to_search) >= 2
    /\ slugs_to_search # OrderBy(expanded, SomeOrder)
    /\ Cardinality(resolved) >= 2
\* ------------------------------------------------------ claims: downloader
\* C7: when download_all starts with every index entry whose local file
\* exists having the sha1 of that file, this holds in every state in which
\* another task or the caller can run, for every interleaving of the tasks.
C7_IndexMatchesFiles ==
    (dpc # "idle" /\ start_consistent) => Consistent(index, disk)

\* C7 witness: in a run that started consistent, two ids whose selected
\* files have the same file name and different hashes both registered.
C7_Witness ==
    /\ dpc # "idle"
    /\ start_consistent
    /\ registered = DlIds
    /\ primary_file["p1"].filename = primary_file["p2"].filename
    /\ primary_file["p1"].hashes.sha1 # primary_file["p2"].hashes.sha1

\* The task of t receives bytes whose sha1 is not the declared one.
ReceivesMismatch(t) ==
    /\ dpc # "idle"
    /\ tpc[t] = "download"
    /\ tpc'[t] # "download"
    /\ primary_file[t].url \notin failing
    /\ Sha1(served[primary_file[t].url]) # primary_file[t].hashes.sha1

\* C8: when the downloaded bytes do not have the declared sha1, the task
\* raises, the file at the target path does not exist afterwards and the
\* index is left as it was; a call with a task that raised never ends
\* normally and never writes the index file.
C8_MismatchAborts ==
    /\ [][\A t \in DlIds :
            ReceivesMismatch(t) =>
              /\ tpc'[t] = "raised"
              /\ disk'[primary_file[t].filename] = Absent
              /\ index' = index]_vars
    /\ [][(dpc # "idle" /\ \E t \in DlIds : tpc[t] = "raised") =>
            (dpc' # "done" /\ index_file' = index_file)]_vars
    /\ [](dpc = "done" => \A t \in DlIds : tpc[t] # "raised")

\* C8 witness: download_all aborted on a task that raised while the index
\* held an entry for its path; the file is gone and the entry is there.
C8_Witness ==
    /\ dpc = "aborted"
    /\ \E t \in DlIds :
         /\ tpc[t] = "raised"
         /\ disk[primary_file[t].filename] = Absent
         /\ \E i \in 1..Len(index) : index[i].path = <<"mods", primary_file[t].filename>>

\* The version list of t arrives and a primary file is selected from it.
SelectsFile(t) ==
    /\ dpc # "idle"
    /\ tpc[t] = "fetch"
    /\ tpc'[t] # "fetch"
    /\ t \notin failing
    /\ SelectCompatibleVersion(catalog[t]) # <<>>
    /\ PrimaryFile(SelectCompatibleVersion(catalog[t])[1].files) # <<>>

SelectedFile(t) == PrimaryFile(SelectCompatibleVersion(catalog[t])[1].files)[1]

\* The three conditions of the cache check, on the file f.
Registered(f) == \E i \in 1..Len(index) : index[i].path = <<"mods", f.filename>>

LocalFileMatches(f) ==
    /\ disk[f.filename] # Absent
    /\ Sha1(disk[f.filename]) = f.hashes.sha1

\* C9: when the index has an entry for the target path and the local file
\* exists with the expected sha1, no download is requested, no file is
\* written and the index is unchanged; otherwise a download is requested.
C9_CacheCheck ==
    [][\A t \in DlIds :
         SelectsFile(t) =>
           IF Registered(SelectedFile(t)) /\ LocalFileMatches(SelectedFile(t))
           THEN /\ tpc'[t] = "done"
                /\ dl_count'[t] = dl_count[t]
                /\ disk' = disk
                /\ index' = index
           ELSE /\ tpc'[t] = "download"
                /\ dl_count'[t] = dl_count[t] + 1
                /\ primary_file'[t] = SelectedFile(t)]_vars

\* C9 witness: in one run one id was a cache hit and the other, whose file
\* matches on disk but has no entry, requested its download.
C9_Witness ==
    /\ dpc # "idle"
    /\ run = 1
    /\ \E t, u \in DlIds :
         /\ tpc[t] = "done" /\ dl_count[t] = 0 /\ t \notin failing
         /\ SelectCompatibleVersion(catalog[t]) # <<>>
         /\ PrimaryFile(SelectCompatibleVersion(catalog[t])[1].files) # <<>>
         /\ Registered(SelectedFile(t)) /\ LocalFileMatches(SelectedFile(t))
         /\ tpc[u] = "download" /\ dl_count[u] = 1
         /\ ~Registered(primary_file[u]) /\ LocalFileMatches(primary_file[u])

\* C10 (as claimed): when download_all has ended without error and is run
\* again on the same ids, catalog and files, no id that registered a file
\* requests a download and the index ends equal to the index it had.
C10_SecondRunIsNoop ==
    /\ run >= 2 => \A t \in prev_registered : dl_count[t] = 0
    /\ (run >= 2 /\ dpc = "done") => index = prev_index

\* C11: when the index starts with at most one entry per path, it holds at
\* most one entry per path in every state of every interleaving of the
\* per-id downloads.
C11_OneEntryPerPath ==
    (dpc # "idle" /\ start_unique) => UniquePaths(index)

\* C11 witness: the index started with one entry for a path, and two ids
\* whose files map to that path both registered it.
C11_Witness ==
    /\ start_unique
    /\ run = 1
    /\ dpc = "running"
    /\ registered = DlIds
    /\ primary_file["p1"].filename = primary_file["p2"].filename
    /\ \E i \in 1..Len(index_file) :
         index_file[i].path = <<"mods", primary_file["p1"].filename>>

\* ------------------------------------------- claims: failures of one item
\* The ids found by the searches that did not fail.
OtherFound == {SearchProject(hits[n]) : n \in expanded \ failing} \ {NoId}

\* The targets followed from p: none when the fetch of p failed.
OtherTargets(p) ==
    IF p \in failing \/ SelectVersion(catalog[p]) = <<>> THEN {}
    ELSE {d.project_id : d \in {x \in Range(SelectVersion(catalog[p])[1].dependencies) :
                                  /\ x.dependency_type \in {"required", "optional"}
                                  /\ x.project_id # NoId}}

RECURSIVE ReachOthers(_)
ReachOthers(S) ==
    LET N == S \cup UNION {OtherTargets(p) : p \in S}
    IN IF N = S THEN S ELSE ReachOthers(N)

\* C12: a failed search gives its name no id and a failed version fetch
\* gives its id no version, the id staying resolved; no such failure aborts
\* resolve (it aborts only on an incompatible edge of a version it fetched),
\* and resolve returns the closure reachable through the other items.
C12_FailuresStayLocal ==
    /\ [](\A n \in DOMAIN search_cache \cap failing : search_cache[n] = NoId)
    /\ [](\A p \in DOMAIN version_cache \cap failing :
             version_cache[p] = <<>> /\ p \in resolved)
    /\ [][(pc # "aborted" /\ pc' = "aborted") =>
            /\ error'[1] \notin failing
            /\ \E d \in Range(SelectVersion(catalog[error'[1]])[1].dependencies) :
                 d.dependency_type = "incompatible" /\ d.project_id = error'[2]]_vars
    /\ [](pc = "done" => resolved = ReachOthers(OtherFound))

\* C12 witness: resolve returned; the fetch of a resolved id failed, an edge
\* of its catalog version was left unfollowed, and another id was resolved.
C12_Witness ==
    /\ pc = "done"
    /\ \E p \in resolved \cap failing :
         /\ \E v \in Range(catalog[p]) : \E d \in Range(v.dependencies) :
              /\ Compatible(v) /\ IsRelease(v)
              /\ d.dependency_type = "required"
              /\ d.project_id \in Ids \ resolved
         /\ resolved \ failing # {}

\* The step of t's task meets a failure that is not a hash mismatch.
ItemFails(t) ==
    /\ dpc # "idle"
    /\ \/ /\ tpc[t] = "fetch"
          /\ tpc'[t] # "fetch"
          /\ \/ t \in failing
             \/ catalog[t] = <<>>
             \/ SelectCompatibleVersion(catalog[t]) = <<>>
             \/ SelectCompatibleVersion(catalog[t])[1].files = <<>>
       \/ /\ tpc[t] = "download"
          /\ tpc'[t] # "download"
          /\ primary_file[t].url \in failing

\* The download of t delivered bytes that do not have the declared sha1.
HadMismatch(t) ==
    /\ primary_file[t] # NoFile
    /\ primary_file[t].url \notin failing
    /\ Sha1(served[primary_file[t].url]) # primary_file[t].hashes.sha1

\* C13: a failure of an item other than a hash mismatch ends the item
\* normally with the index and the local files unchanged; download_all
\* aborts only after a hash mismatch, and otherwise every run ends with
\* the index file written.
C13_FailuresDoNotAbort ==
    /\ [][\A t \in DlIds :
            ItemFails(t) =>
              /\ tpc'[t] = "done"
              /\ index' = index
              /\ disk' = disk
              /\ dpc' = dpc]_vars
    /\ [](dpc = "aborted" => \E t \in DlIds : HadMismatch(t))
    /\ [](dpc = "running" => <>(dpc = "aborted" \/ (dpc = "done" /\ index_file = index)))

\* C13 witness: download_all ended normally and wrote the index file; the
\* download of one id failed and left the local file of its path as it
\* was, and another id registered its file.
C13_Witness ==
    /\ dpc = "done"
    /\ index_file = index
    /\ \E t, u \in DlIds :
         /\ tpc[t] = "done"
         /\ primary_file[t] # NoFile
         /\ primary_file[t].url \in failing
         /\ disk[primary_file[t].filename] # Absent
         /\ u \in registered
         /\ primary_file[u].filename # primary_file[t].filename

\* C14 (as claimed): the in-memory index changes only in a step of the
\* coordinating download_all (one that consumes a finished task or starts a
\* call), never in a step of a per-id task.
C14_OnlyCoordinatorWritesIndex ==
    [][index' # index => (consumed' # consumed \/ dpc' # dpc)]_vars

\* ================================================== ModPolicy: construction
\* The rule tables that policy files hold.
ConstructTables ==
    {{}} \cup {{e} : e \in RuleEntries}
    \cup {{<<"conflicts", "sodium", "optifine">>, <<"sub_mods", "sodium", "indium">>}}

\* The JSON object of the entries es: per mod the keys that have entries,
\* each with the list of its names.
RawRulesOf(es) ==
    [m \in {e[2] : e \in es} |->
        [k \in {e[1] : e \in {x \in es : x[2] = m}} |->
            Sorted({e[3] : e \in {x \in es : x[1] = k /\ x[2] = m}})]]

\* What can be at policy_path: nothing, text that is not JSON, a JSON array,
\* or a JSON object, with or without the "$schema" key.  conforms tells
\* whether the schema accepts the object, rules_are_objects whether every
\* value of it is itself an object.
PolicyFiles ==
    {[kind |-> k] : k \in {"missing", "unparsable", "array"}}
    \cup {[kind |-> "object", entries |-> es, schema_key |-> sk, conforms |-> c,
           rules_are_objects |-> o] :
             es \in ConstructTables, sk \in BOOLEAN, c \in BOOLEAN, o \in BOOLEAN}

\* What the request to SCHEMA_URL gives.
SchemaResponses == {"unreachable", "not_json", "not_a_schema", "schema"}

\* json.loads of the file: the object of its rules, with its "$schema" key.
ParsedData(file) ==
    IF file.schema_key
    THEN RawRulesOf(file.entries) @@ [k \in {"$schema"} |-> "url"]
    ELSE RawRulesOf(file.entries)

\* Lines 43-46 raise: read_text on a missing file, json.loads on text that
\* is not JSON, pop(key, default) on a list.
LoadRaises(file) == file.kind \in {"missing", "unparsable", "array"}

\* Line 46: data.pop("$schema", None).
PopSchema(data) == [k \in DOMAIN data \ {"$schema"} |-> data[k]]

\* Lines 41-50.
Load ==
    /\ cpc = "new"
    /\ IF LoadRaises(policy_file)
       THEN /\ raised' = "PolicyError"
            /\ cpc' = "raised"
            /\ UNCHANGED self_rules
       ELSE /\ self_rules' = PopSchema(ParsedData(policy_file))
            /\ cpc' = "loaded"
            /\ UNCHANGED raised
    /\ UNCHANGED <<resolverVars, downloadVars, policyVars, selectVars, registryVars, manifest_file,
                   policy_file, schema_response, apply_result>>

\* Mutant of ValidateRaises: only a failure to obtain the schema raises.
ValidateRaisesWithoutSchema(response, file) == response # "schema"

\* Lines 55-57 raise: urlopen fails, the response is not JSON, the response
\* is no schema, or the instance violates the schema.
ValidateRaises(response, file) == response # "schema" \/ ~file.conforms

\* Lines 53-61: both except clauses raise PolicyError.
Validate ==
    /\ cpc = "loaded"
    /\ IF ValidateRaises(schema_response, policy_file)
       THEN raised' = "PolicyError" /\ cpc' = "raised"
       ELSE cpc' = "validated" /\ UNCHANGED raised
    /\ UNCHANGED <<resolverVars, downloadVars, policyVars, selectVars, registryVars, manifest_file,
                   policy_file, schema_response, self_rules, apply_result>>

\* rule.get(key, []).
GetList(rule, key) == IF key \in DOMAIN rule THEN rule[key] ELSE <<>>

\* Lines 67-69, which no try encloses: every rule gets both keys, as sets.
\* On a value that is no object rule.get raises AttributeError.
Normalize ==
    /\ cpc = "validated"
    /\ IF policy_file.rules_are_objects
       THEN /\ self_rules' = [m \in DOMAIN self_rules |->
                                Rule(Range(GetList(self_rules[m], "conflicts")),
                                     Range(GetList(self_rules[m], "sub_mods")))]
            /\ cpc' = "constructed"
            /\ UNCHANGED raised
       ELSE /\ raised' = "AttributeError"
            /\ cpc' = "raised"
            /\ UNCHANGED self_rules
    /\ UNCHANGED <<resolverVars, downloadVars, policyVars, selectVars, registryVars, manifest_file,
                   policy_file, schema_response, apply_result>>

\* Lines 72-103: apply is called on the constructed policy.
ConstructedApply ==
    /\ cpc = "constructed"
    /\ \E ord \in NameOrders : apply_result' = PolicyApply(self_rules, mods, ord)
    /\ cpc' = "applied"
    /\ UNCHANGED <<resolverVars, downloadVars, policyVars, selectVars, registryVars, manifest_file,
                   policy_file, schema_response, raised, self_rules>>

\* ModPolicy(policy_path) is called.
InitConstruct ==
    /\ mods \in {{"sodium"}, {"sodium", "optifine"}}
    /\ rules = <<>>
    /\ hits = <<>>
    /\ catalog = <<>>
    /\ failing = {}
    /\ ResolveNotCalled
    /\ DownloaderIdle
    /\ PolicyIdle
    /\ SelectIdle
    /\ RegistryIdle
    /\ manifest_file = <<>>
    /\ cpc = "new"
    /\ policy_file \in PolicyFiles
    /\ schema_response \in SchemaResponses
    /\ raised = "none"
    /\ self_rules = <<>>
    /\ apply_result = {}

NextConstruct == Load \/ Validate \/ Normalize \/ ConstructedApply

SpecConstruct == InitConstruct /\ [][NextConstruct]_vars

\* =========================================================== the registry
PackNames == {"alpha_pack", "beta_pack"}

PackOrder == <<"alpha_pack", "beta_pack">>

\* The registries: pack name -> pack path.
Registries == UNION {[S -> {"/a", "/b"}] : S \in SUBSET PackNames}

\* json.dump: the text of a registry, as the chunks written one after the
\* other: the opening brace, one member per key, the closing brace.
Dump(registry) ==
    LET keys == OrderBy(DOMAIN registry, PackOrder)
    IN <<<<"{", "", "">>>>
       \o [i \in 1..Len(keys) |-> <<"member", keys[i], registry[keys[i]]>>]
       \o <<<<"}", "", "">>>>

\* json.loads accepts the text: it is a whole object.
Decodes(text) ==
    /\ Len(text) >= 2
    /\ text[1][1] = "{"
    /\ text[Len(text)][1] = "}"
    /\ \A i \in 2..(Len(text) - 1) : text[i][1] = "member"

\* json.loads of a text it accepts: of two members with one key the later
\* one counts.
Loads(text) ==
    LET members == 2..(Len(text) - 1)
    IN [k \in {text[i][2] : i \in members} |->
          text[CHOOSE i \in members :
                 /\ text[i][2] = k
                 /\ \A j \in members : text[j][2] = k => j <= i][3]]

\* save_registry_atomic(registry_arg, path) and load_registry(path) are
\* called, by two processes, on a path that holds no file or the text of a
\* registry.
InitRegistry ==
    /\ ResolverIdle
    /\ catalog = <<>>
    /\ failing = {}
    /\ DownloaderIdle
    /\ PolicyIdle
    /\ SelectIdle
    /\ ConstructIdle
    /\ manifest_file = <<>>
    /\ registry_file \in {<<>>} \cup {<<Dump(r)>> : r \in Registries}
    /\ registry_before = registry_file
    /\ temp_file = <<>>
    /\ registry_arg \in Registries
    /\ svpc = "tempfile"
    /\ ldpc = "exists"
    /\ loaded = <<>>
    /\ backup_made = FALSE

\* utils.py lines 73-78: the directory is made and an empty temporary file is
\* created in it; either may raise.
MakeTempFile ==
    /\ svpc = "tempfile"
    /\ \/ temp_file' = <<<<>>>> /\ svpc' = "dump"
       \/ svpc' = "failed" /\ UNCHANGED temp_file
    /\ UNCHANGED <<resolverVars, downloadVars, policyVars, selectVars, constructVars,
                   manifest_file, registry_file, registry_arg, ldpc, loaded, backup_made,
                   registry_before>>

\* Line 79: json.dump writes the next chunk to the temporary file, or raises
\* and leaves save_registry_atomic with the file as it is.
DumpChunk ==
    /\ svpc = "dump"
    /\ Len(temp_file[1]) < Len(Dump(registry_arg))
    /\ \/ /\ temp_file' = <<Append(temp_file[1], Dump(registry_arg)[Len(temp_file[1]) + 1])>>
          /\ UNCHANGED svpc
       \/ svpc' = "failed" /\ UNCHANGED temp_file
    /\ UNCHANGED <<resolverVars, downloadVars, policyVars, selectVars, constructVars,
                   manifest_file, registry_file, registry_arg, ldpc, loaded, backup_made,
                   registry_before>>

\* Mutant of DumpedCompletely: the file is renamed whatever was written.
DumpedAnything(text, registry) == TRUE

\* json.dump has returned: the whole text of the registry is written.
DumpedCompletely(text, registry) == text = Dump(registry)

\* Lines 76-80: the with block is left after json.dump returned.
CloseTempFile ==
    /\ svpc = "dump"
    /\ DumpedCompletely(temp_file[1], registry_arg)
    /\ svpc' = "replace"
    /\ UNCHANGED <<resolverVars, downloadVars, policyVars, selectVars, constructVars,
                   manifest_file, registry_file, temp_file, registry_arg, ldpc, loaded,
                   backup_made, registry_before>>

\* Lines 83-87: the temporary file is renamed onto path in one step; when the
\* rename raises, the temporary file is removed and RuntimeError raised.
Replace ==
    /\ svpc = "replace"
    /\ \/ /\ registry_file' = temp_file
          /\ svpc' = "saved"
       \/ /\ svpc' = "failed"
          /\ UNCHANGED registry_file
    /\ temp_file' = <<>>
    /\ UNCHANGED <<resolverVars, downloadVars, policyVars, selectVars, constructVars,
                   manifest_file, registry_arg, ldpc, loaded, backup_made, registry_before>>

\* Lines 91-92: without a file at path load_registry returns {}.
LoadExists ==
    /\ ldpc = "exists"
    /\ IF registry_file = <<>>
       THEN loaded' = <<>> /\ ldpc' = "returned"
       ELSE ldpc' = "read" /\ UNCHANGED loaded
    /\ UNCHANGED <<resolverVars, downloadVars, policyVars, selectVars, constructVars,
                   manifest_file, registry_file, temp_file, registry_arg, svpc, backup_made,
                   registry_before>>

\* Lines 94-102: the file is read and decoded; a text that does not decode is
\* copied to a backup and {} returned.
LoadRead ==
    /\ ldpc = "read"
    /\ IF Decodes(registry_file[1])
       THEN loaded' = Loads(registry_file[1]) /\ UNCHANGED backup_made
       ELSE loaded' = <<>> /\ backup_made' = TRUE
    /\ ldpc' = "returned"
    /\ UNCHANGED <<resolverVars, downloadVars, policyVars, selectVars, constructVars,
                   manifest_file, registry_file, temp_file, registry_arg, svpc,
                   registry_before>>

NextRegistry ==
    \/ MakeTempFile
    \/ DumpChunk
    \/ CloseTempFile
    \/ Replace
    \/ LoadExists
    \/ LoadRead

SpecRegistry == InitRegistry /\ [][NextRegistry]_vars

\* ======================================= ModDownloader: version selection
\* Length of the version list handed to the selector.
MaxVersions == 3

VersionTypes == {"release", "beta", "alpha", "snapshot"}

Dates == {1, 2}

\* <<game_versions, loaders>> of a version: compatible, compatible up to the
\* case of the loader name, for another game version, for another loader.
Platforms ==
    {<<{mc_version}, {loader}>>, <<{mc_version}, {"Fabric"}>>,
     <<{"1.20.1"}, {loader}>>, <<{mc_version}, {"forge"}>>}

\* The version at position n of a response.
NumberedVersion(n, vtype, platform, date) ==
    [version_number |-> n, version_type |-> vtype, game_versions |-> platform[1],
     loaders |-> platform[2], dependencies |-> <<>>, date_published |-> date,
     files |-> <<>>]

VersionChoices == VersionTypes \X Platforms \X Dates

\* The version list of the choices c, one per position.
VersionList(c) ==
    [i \in 1..Len(c) |-> NumberedVersion(i, c[i][1], c[i][2], c[i][3])]

\* The two selectors are called on a version list.
InitSelect ==
    /\ ResolverIdle
    /\ catalog = <<>>
    /\ failing = {}
    /\ DownloaderIdle
    /\ PolicyIdle
    /\ ConstructIdle
    /\ RegistryIdle
    /\ manifest_file = <<>>
    /\ spc = "call"
    /\ \E n \in 0..MaxVersions :
         \E c \in [1..n -> VersionChoices] : versions_arg = VersionList(c)
    /\ selected = <<>>
    /\ resolver_selected = <<>>

\* downloader.py lines 41-78 and resolver.py lines 34-48: the calls return.
SelectReturn ==
    /\ spc = "call"
    /\ selected' = SelectCompatibleVersion(versions_arg)
    /\ resolver_selected' = SelectVersion(versions_arg)
    /\ spc' = "returned"
    /\ UNCHANGED <<resolverVars, downloadVars, policyVars, constructVars, manifest_file,
                   registryVars, versions_arg>>

NextSelect == SelectReturn

SpecSelect == InitSelect /\ [][NextSelect]_vars

\* ---------------------------------------------------------- claims: policy
\* The least superset of S closed under sub_mods.
RECURSIVE SubModClosure(_)
SubModClosure(S) ==
    LET N == S \cup UNION {RuleOf(rules, m).sub_mods : m \in S}
    IN IF N = S THEN S ELSE SubModClosure(N)

\* C18: apply terminates for every rule table, cyclic sub_mods included,
\* and every mod enters the expansion work queue at most once.
C18_ApplyTerminates ==
    /\ [](ppc # "idle" => \A m \in Names : queued[m] <= 1)
    /\ [](ppc = "call" => <>(ppc = "returned"))

\* C18 witness: apply returned although an active mod lies on a cycle of
\* the sub_mods relation (it lists itself, or a mod that leads back to it).
C18_Witness ==
    /\ ppc = "returned"
    /\ \E a \in active :
         /\ a \in SubModClosure(RuleOf(rules, a).sub_mods)
         /\ \E b \in active \ {a} : b \in RuleOf(rules, a).sub_mods

\* apply has returned and final_mods is its result.
Returned == ppc \in {"returned", "diffed"}

\* C15: apply(S) is C minus the conflicts of every mod of C, where C is the
\* least superset of S closed under sub_mods.
C15_ClosureMinusConflicts ==
    Returned =>
      LET C == SubModClosure(requested)
      IN final_mods = C \ UNION {RuleOf(rules, m).conflicts : m \in C}

\* C15 witness: apply returned a mod a that no active mod lists as a conflict,
\* without the mod b that a lists and that only the expansion had added.
C15_Witness ==
    /\ Returned
    /\ \E a \in final_mods, b \in (active \ requested) \ final_mods :
         /\ b \in RuleOf(rules, a).conflicts
         /\ \A m \in active : a \notin RuleOf(rules, m).conflicts

\* C16 (as claimed): of two active mods that list each other as conflicts,
\* apply returns exactly one.
C16_OneOfMutualConflictSurvives ==
    Returned =>
      \A a, b \in active :
         (/\ a # b
          /\ b \in RuleOf(rules, a).conflicts
          /\ a \in RuleOf(rules, b).conflicts)
         => (a \in final_mods) # (b \in final_mods)

\* C17 (as claimed): apply(apply(S)) = apply(S).
C17_Idempotent ==
    (ppc = "returned" /\ call_kind = "result") => final_mods = prev_result

\* Every mod of the closure of the previous argument that lists a conflict
\* present in that closure was kept by the previous call.
RemoversKept ==
    LET C == SubModClosure(prev_requested)
    IN \A m \in C : RuleOf(rules, m).conflicts \cap C # {} => m \in prev_result

\* C17 (amended): apply(apply(S)) contains apply(S), and equals it whenever
\* every mod whose conflicts removed something from the closure of S is
\* itself in apply(S).
C17_IdempotentWhenRemoversKept ==
    (ppc = "returned" /\ call_kind = "result") =>
      /\ prev_result \subseteq final_mods
      /\ RemoversKept => final_mods = prev_result

\* C17 witness: apply was applied to its own result and returned it again;
\* the first call had added a sub-mod and removed a conflict.
C17_Witness ==
    /\ ppc = "returned"
    /\ call_kind = "result"
    /\ RemoversKept
    /\ final_mods = prev_result
    /\ prev_result \ prev_requested # {}
    /\ SubModClosure(prev_requested) \ prev_result # {}

\* C19: diff(S) returns added = apply(S) - S and removed = S - apply(S);
\* added is disjoint from S and from removed, removed is a subset of S, and
\* (S + added) - removed = apply(S).
C19_DiffIsSetDifference ==
    ppc = "diffed" =>
      LET A == Range(diff_result.added)
          R == Range(diff_result.removed)
      IN /\ A = final_mods \ requested
         /\ R = requested \ final_mods
         /\ A \cap requested = {}
         /\ R \subseteq requested
         /\ A \cap R = {}
         /\ (requested \cup A) \ R = final_mods

\* C19 witness: diff returned with a mod added and a mod removed.
C19_Witness ==
    /\ ppc = "diffed"
    /\ diff_result.added # <<>>
    /\ diff_result.removed # <<>>

\* ----------------------------------------------- claims: version selection
\* Spellings of the loader name that differ in case only.
LoaderSpellings == {"fabric", "Fabric", "FABRIC"}

\* Positions of versions_arg whose version is for the platform version and
\* the loader.
CompatiblePositions ==
    {i \in 1..Len(versions_arg) :
        /\ mc_version \in versions_arg[i].game_versions
        /\ versions_arg[i].loaders \cap LoaderSpellings # {}}

ChannelPriority(v) ==
    IF v.version_type = "release" THEN 3
    ELSE IF v.version_type = "beta" THEN 2
    ELSE IF v.version_type = "alpha" THEN 1
    ELSE 0

\* The pair (priority, date) of a is at least that of b.
PairAtLeast(a, b) ==
    \/ ChannelPriority(a) > ChannelPriority(b)
    \/ ChannelPriority(a) = ChannelPriority(b) /\ a.date_published >= b.date_published

\* Compatible positions whose pair is maximal among the compatible ones.
BestPositions ==
    {i \in CompatiblePositions :
        \A j \in CompatiblePositions : PairAtLeast(versions_arg[i], versions_arg[j])}

\* C20: _select_compatible_version returns None iff no version is
\* compatible; otherwise the compatible version with the maximal pair
\* (channel priority, publish date) that comes first in the input list.
C20_SelectsBestCompatible ==
    spc = "returned" =>
      /\ selected = <<>> <=> CompatiblePositions = {}
      /\ selected # <<>> =>
           /\ selected[1].version_number \in BestPositions
           /\ \A j \in BestPositions : selected[1].version_number <= j
           /\ selected[1] = versions_arg[selected[1].version_number]

\* C20 witness: the call returned the first of two compatible versions with
\* equal maximal pairs, one that spells the loader in another case, while an
\* incompatible version of a higher channel was in the list.
C20_Witness ==
    /\ spc = "returned"
    /\ selected # <<>>
    /\ selected[1].loaders = {"Fabric"}
    /\ Cardinality(BestPositions) = 2
    /\ \E k \in 1..Len(versions_arg) :
         /\ k \notin CompatiblePositions
         /\ ChannelPriority(versions_arg[k]) > ChannelPriority(selected[1])

\* C21: on every version list the resolver's _select_version and the
\* downloader's _select_compatible_version return the same version, or both
\* return None.
C21_SelectorsAgree ==
    spc = "returned" => resolver_selected = selected

\* Positions of versions_arg whose version is a release listing mc_version
\* and the loader exactly as the platform names it.
ExactReleasePositions ==
    {i \in 1..Len(versions_arg) :
        /\ versions_arg[i].version_type = "release"
        /\ mc_version \in versions_arg[i].game_versions
        /\ loader \in versions_arg[i].loaders}

SearchPreferringSlug(name) ==
    LET found == hits[name]
        e == FirstIn({k \in 1..Len(found) : found[k].slug = name})
        q == FirstIn({k \in 1..Len(found) : HitQualifies(found[k])})
    IN IF e # 0 THEN found[e].project_id
       ELSE IF q # 0 THEN found[q].project_id
       ELSE NoId

\* C23: a search whose request succeeds returns the id of a hit whose slug
\* equals the searched name when there is one, else the id of the first
\* qualifying hit, else None.
C23_SearchPrefersExactSlug ==
    \A name \in DOMAIN search_results :
        name \notin failing => search_results[name] = SearchPreferringSlug(name)

\* -------------------------------------------------------- claims: phase 2
\* C24: at most BATCH_SIZE version-list requests are in flight, and requests
\* are issued only while no request of an earlier wave is in flight.
C24_WavesOfBatchSize ==
    /\ [](Cardinality(fetch_pending) <= BATCH_SIZE)
    /\ [][fetch_count' # fetch_count => fetch_pending = {}]_vars

\* C24 witness: BATCH_SIZE requests are in flight while a further id waits
\* in the queue for the next wave.
C24_Witness ==
    /\ pc = "gather_versions"
    /\ Cardinality(fetch_pending) = BATCH_SIZE
    /\ queue # <<>>

\* -------------------------------------------------------- claims: phase 1
\* C25: the searches in flight stay below a bound that does not grow with
\* the number of names: when every name of Names is to be resolved, they are
\* not all in flight at once.
C25_FanOutBounded == Cardinality(search_pending) < Cardinality(Names)

\* ------------------------------------------- claims: no compatible version
\* resolve is processing an id of the batch for which no version is selected.
ProcessingUnselectable ==
    /\ pc = "process"
    /\ bi <= Len(batch)
    /\ SelectedOf(version_cache, batch[bi]) = <<>>

\* C26: an id without a compatible version stays in the resolved set (no id
\* ever leaves it), and while it is processed nothing is added to the
\* resolved set or the queue and resolve does not abort.
C26_UnselectableIsKept ==
    /\ [][resolved \subseteq resolved']_vars
    /\ [][ProcessingUnselectable =>
            /\ batch[bi] \in resolved'
            /\ resolved' = resolved
            /\ queue' = queue
            /\ pc' # "aborted"
            /\ error' = error]_vars

\* C26 witness: resolve returned a set holding an id whose fetch succeeded
\* but gave no compatible version, although a listed version of it has a
\* dependency that is incompatible or leads to an id outside the set.
C26_Witness ==
    /\ pc = "done"
    /\ \E p \in resolved \ failing :
         /\ SelectVersion(catalog[p]) = <<>>
         /\ \E i \in 1..Len(catalog[p]) :
              \E d \in Range(catalog[p][i].dependencies) :
                  /\ d.project_id # NoId
                  /\ \/ d.dependency_type = "incompatible"
                     \/ d.dependency_type = "required" /\ d.project_id \notin resolved

\* ------------------------------------------------ claims: policy construction
\* The rule file is missing, is not JSON or no JSON object, is rejected by
\* the schema, or the schema cannot be obtained.
Defective ==
    \/ policy_file.kind # "object"
    \/ ~policy_file.conforms
    \/ schema_response # "schema"

\* C27: with a defective rule file or schema the constructor never returns
\* an object and what it raises is PolicyError; a constructed policy holds
\* the normalized table of a rule file that was loaded and validated, and
\* apply on it raises nothing.
C27_FailsClosed ==
    /\ Defective => cpc \notin {"constructed", "applied"}
    /\ (Defective /\ cpc = "raised") => raised = "PolicyError"
    /\ cpc \in {"constructed", "applied"} =>
         /\ self_rules = RulesOf(policy_file.entries)
         /\ raised = "none"

\* C27 witness: the constructor raised PolicyError on a file that was loaded
\* and that the schema rejects.
C27_Witness ==
    /\ cpc = "raised"
    /\ raised = "PolicyError"
    /\ policy_file.kind = "object"
    /\ policy_file.schema_key
    /\ ~policy_file.conforms
    /\ schema_response = "schema"
    /\ self_rules # <<>>

\* ------------------------------------------------ claims: the index file
\* C28: the index file is written only by the step that ends download_all
\* after every task has completed without raising; while a call runs and
\* after it aborted the file is what it was when the call began.
C28_IndexFileWrittenOnSuccessOnly ==
    /\ [][index_file' # index_file =>
            /\ dpc' = "done"
            /\ consumed' = Cardinality(DlIds)
            /\ \A t \in DlIds : tpc'[t] = "done"]_vars
    /\ [](dpc \in {"running", "aborted"} => index_file = index_file_before)

\* C28 witness: the call aborted on a hash mismatch after another item was
\* registered in memory, and the index in memory differs from the file.
C28_Witness ==
    /\ dpc = "aborted"
    /\ registered # {}
    /\ index # index_file
    /\ index_file = index_file_before

\* ------------------------------------------------ claims: the primary file
\* The version list of t arrives and a version is selected from it.
SelectsVersion(t) ==
    /\ dpc # "idle"
    /\ tpc[t] = "fetch"
    /\ tpc'[t] # "fetch"
    /\ t \notin failing
    /\ SelectCompatibleVersion(catalog[t]) # <<>>

\* C30: of the files of the selected version the downloader uses the first
\* one flagged primary, else the first one; without a file the task ends
\* with no download, no file write and no change of the index.
C30_PrimaryFileUsed ==
    [][\A t \in DlIds :
         SelectsVersion(t) =>
           LET files == SelectCompatibleVersion(catalog[t])[1].files
               flagged == {k \in 1..Len(files) : files[k].primary}
               used == IF flagged # {}
                       THEN files[CHOOSE k \in flagged : \A j \in flagged : k <= j]
                       ELSE files[1]
           IN IF files = <<>>
              THEN /\ tpc'[t] = "done"
                   /\ dl_count' = dl_count
                   /\ disk' = disk
                   /\ index' = index
                   /\ index_file' = index_file
              ELSE \/ tpc'[t] = "download" /\ primary_file'[t] = used
                   \/ tpc'[t] = "done" /\ CacheHit(index, disk, used)]_vars

\* C30 witness: a download was issued for the second file of a version with
\* three files, the first of the two that are flagged primary.
C30_Witness ==
    \E t \in DlIds :
        /\ tpc[t] = "download"
        /\ SelectCompatibleVersion(catalog[t]) # <<>>
        /\ LET files == SelectCompatibleVersion(catalog[t])[1].files
           IN /\ Len(files) = 3
              /\ ~files[1].primary
              /\ files[3].primary
              /\ primary_file[t] = files[2]

\* ------------------------------------------------ claims: the resolve command
\* C29: the manifest is written only once resolve has returned, with the
\* sorted list of the resolved ids; when resolve aborted the mod list on disk
\* is the one the command started with.
C29_ManifestWrittenOnSuccessOnly ==
    /\ [][manifest_file' # manifest_file =>
            pc = "done" /\ manifest_file' = OrderBy(resolved, SortedIds)]_vars
    /\ [](pc \in {"aborted", "exited"} => manifest_file = Sorted(mods))
    /\ [](pc = "written" => manifest_file = OrderBy(resolved, SortedIds))

\* C29 witness: the command exited after resolve aborted with ids already
\* resolved, and the manifest still lists the names it started with.
C29_Witness ==
    /\ pc = "exited"
    /\ Cardinality(resolved) >= 2
    /\ mods # {}
    /\ manifest_file = Sorted(mods)

\* ------------------------------------------------ claims: registration order
\* The entries of files_list whose path is not path, in their order.
RECURSIVE EntriesOfOtherPaths(_, _)
EntriesOfOtherPaths(files_list, path) ==
    IF files_list = <<>> THEN <<>>
    ELSE IF Head(files_list).path = path
         THEN EntriesOfOtherPaths(Tail(files_list), path)
         ELSE <<Head(files_list)>> \o EntriesOfOtherPaths(Tail(files_list), path)

\* C31: when a task registers its file, the entry of that file is the last
\* one of the index list, and before it come the former entries of the other
\* paths, unchanged and in their former order.
C31_RegisteredEntryIsLast ==
    [][\A t \in DlIds :
         (t \in registered' /\ t \notin registered) =>
           LET path == <<"mods", primary_file[t].filename>>
               n == Len(index')
           IN /\ n > 0
              /\ index'[n].path = path
              /\ index'[n].downloads = <<primary_file[t].url>>
              /\ index'[n].hashes.sha1 = primary_file[t].hashes.sha1
              /\ SubSeq(index', 1, n - 1) = EntriesOfOtherPaths(index, path)]_vars

\* C31 witness: a task registered a file whose former entry was the first of
\* an index with entries of two paths; the new entry is the last one and the
\* entry of the other path has moved to the front.
C31_Witness ==
    \E t \in registered :
        /\ dpc = "running"
        /\ Cardinality(registered) = 1
        /\ Len(index_file_before) >= 2
        /\ index_file_before[1].path = <<"mods", primary_file[t].filename>>
        /\ index_file_before[2].path # index_file_before[1].path
        /\ index[Len(index)].path = index_file_before[1].path
        /\ index[1] = index_file_before[2]

\* ------------------------------------------------ claims: the resolved set
\* C32: every id in the queue or in the current batch is in the resolved set,
\* and no id ever leaves the resolved set.
C32_QueuedAreResolved ==
    /\ [](Range(queue) \cup Range(batch) \subseteq resolved)
    /\ [][resolved \subseteq resolved']_vars

\* C32 witness: while a batch is processed an id that entered as a dependency
\* waits in the queue, and the resolved set holds it and the batch.
C32_Witness ==
    /\ pc = "process"
    /\ batch # <<>>
    /\ queue # <<>>
    /\ Range(queue) \cap Phase1Ids(expanded) = {}
    /\ Range(queue) \cup Range(batch) \subseteq resolved

\* ------------------------------------------------ claims: conflict freedom
\* C33: no mod of the result of apply is in the conflicts of a mod of the
\* result.
C33_ResultConflictFree ==
    Returned =>
      \A a, b \in final_mods : b \notin RuleOf(rules, a).conflicts

\* C33 witness: apply returned two mods or more, one of which lists as a
\* conflict a requested mod, which is not in the result.
C33_Witness ==
    /\ Returned
    /\ Cardinality(final_mods) >= 2
    /\ \E a \in final_mods, b \in requested \ final_mods :
         b \in RuleOf(rules, a).conflicts

\* ------------------------------------------------------ claims: the registry
\* The registry that the file at path held when the calls began.
RegistryBefore == IF registry_before = <<>> THEN <<>> ELSE Loads(registry_before[1])

\* C34: the file at path always is the file the calls began with or the whole
\* text of the registry to save, and after a failed save the former; a
\* load_registry that runs at any moment of the save, or after it, returns
\* the old registry or the new one, and never finds a text it cannot decode.
C34_RegistryNeverPartial ==
    /\ registry_file \in {registry_before, <<Dump(registry_arg)>>}
    /\ svpc = "failed" => registry_file = registry_before
    /\ svpc = "saved" => registry_file = <<Dump(registry_arg)>>
    /\ ldpc = "returned" =>
         /\ loaded \in {RegistryBefore, registry_arg}
         /\ ~backup_made

\* C34 witness: the save failed while the temporary file held a part of the
\* new text only, and load_registry returned the old registry, which is not
\* empty and not the one to save.
C34_Witness ==
    /\ svpc = "failed"
    /\ temp_file # <<>>
    /\ temp_file[1] # <<>>
    /\ Len(temp_file[1]) < Len(Dump(registry_arg))
    /\ ldpc = "returned"
    /\ loaded = RegistryBefore
    /\ DOMAIN loaded # {}
    /\ loaded # registry_arg

====
